---------------------------- MODULE Spec2Model ----------------------------
(***************************************************************************)
(* A model of the clox virtual machine of this repository: values, heap    *)
(* objects, the open-addressed hash table, string interning, the           *)
(* mark-sweep collector, and the stack machine with closures and upvalues. *)
(*                                                                         *)
(* Pointers are heap addresses 1, 2, ... (NULL is 0).  The heap is a       *)
(* sequence of object records; a freed object keeps its address and is     *)
(* replaced by the FREED record, so a dangling pointer is a pointer to a   *)
(* FREED record.  vm.objects (the intrusive all-objects list) is the       *)
(* sequence of addresses from its head; vm.openUpvalues is a head pointer  *)
(* and every upvalue carries its own next pointer.                         *)
(***************************************************************************)
EXTENDS Integers, Sequences, FiniteSets, TLC

\* ---------------------------------------------------------------- bounds
MaxTableOps == 3    \* table operations in one run of SpecTable
MaxAlloc    == 6    \* heap objects allocated in one run of SpecIntern
MaxStack    == 6    \* operand-stack slots the model uses
MaxRuns     == 2    \* interpret calls on one VM in one run of Spec

\* ------------------------------------------------------- program constants
\* concatenate reads peek(0) and peek(1): the strings a program of SpecIntern
\* holds on the stack at once.
CONCAT_OPERANDS == 2
FRAMES_MAX  == 64
UINT8_MAX == 255
UINT8_COUNT == UINT8_MAX + 1
\* The number of Values vm.stack holds.
STACK_MAX == FRAMES_MAX * UINT8_COUNT
TABLE_MIN_CAPACITY == 8
GROW_FACTOR == 2

NULL == 0

\* ------------------------------------------------------------- evaluation
\* F applied to the value of v: v is evaluated once, before the body.
With(v, F(_)) == CHOOSE r \in {F(x) : x \in {v}} : TRUE

\* ----------------------------------------------------------------- values
NIL_VAL       == [t |-> "nil",  v |-> 0]
BOOL_VAL(b)   == [t |-> "bool", v |-> IF b THEN 1 ELSE 0]
NUMBER_VAL(n) == [t |-> "num",  v |-> n]
OBJ_VAL(o)    == [t |-> "obj",  v |-> o]

IS_NIL(x)  == x.t = "nil"
IS_BOOL(x) == x.t = "bool"
IS_OBJ(x)  == x.t = "obj"
AS_OBJ(x)  == x.v
AS_BOOL(x) == x.v = 1

isFalsey(x) == IS_NIL(x) \/ (IS_BOOL(x) /\ ~AS_BOOL(x))

\* The value of a pointer that may be NULL, for the marking loops.
PtrVal(p) == IF p = NULL THEN NIL_VAL ELSE OBJ_VAL(p)

\* ------------------------------------------------------------- hashString
\* FNV-1a over 32 bits.  A hash is the pair <<high 16 bits, low 16 bits>>.
RECURSIVE Xor8(_, _, _)
Xor8(a, b, n) ==
  IF n = 0 THEN 0
  ELSE (IF (a % 2) # (b % 2) THEN 1 ELSE 0) + 2 * Xor8(a \div 2, b \div 2, n - 1)

\* hash ^= (uint8_t) byte
HashXor(h, byte) == <<h[1], (h[2] - (h[2] % 256)) + Xor8(h[2] % 256, byte, 8)>>

\* hash *= 16777619 (0x01000193), modulo 2^32
HashMul(h) ==
  LET p == h[2] * 403
  IN  <<(h[1] * 403 + (p \div 65536) + (h[2] % 256) * 256) % 65536, p % 65536>>

RECURSIVE HashFrom(_, _, _)
HashFrom(h, chars, i) ==
  IF i > Len(chars) THEN h
  ELSE With(<<HashMul(HashXor(h, chars[i])), i + 1>>,
            LAMBDA n : HashFrom(n[1], chars, n[2]))

\* 2166136261 = 0x811C9DC5
hashString(chars) == HashFrom(<<33052, 40389>>, chars, 1)

\* hash & (capacity - 1), capacity a power of two not above 2^16
HashIndex(h, capacity) == h[2] % capacity

\* ------------------------------------------------------------ heap objects
FREED == [type |-> "freed", isMarked |-> FALSE]

IsLive(h, o) == o # NULL /\ o <= Len(h) /\ h[o].type # "freed"

ObjString(chars, hash) ==
  [type |-> "string", isMarked |-> FALSE, chars |-> chars, hash |-> hash]

\* code is the chunk's instruction sequence; upvalues holds the (isLocal, index)
\* operand pairs the compiler emits after the OP_CLOSURE that loads the function.
ObjFunction ==
  [type |-> "function", isMarked |-> FALSE, arity |-> 0, upvalueCount |-> 0,
   name |-> NULL, constants |-> <<>>, code |-> <<>>, upvalues |-> <<>>]

ObjNative == [type |-> "native", isMarked |-> FALSE]

ObjClosure(function, upvalues) ==
  [type |-> "closure", isMarked |-> FALSE, function |-> function,
   upvalues |-> upvalues, upvalueCount |-> Len(upvalues)]

\* Two history fields ride along: inherited holds the methods the superclass
\* had when OP_INHERIT ran, declared the methods of the class's own body, both
\* as pairs of name and value.
ObjClass(name) ==
  [type |-> "class", isMarked |-> FALSE, name |-> name,
   methods |-> [count |-> 0, capacity |-> 0, entries |-> <<>>],
   inherited |-> {}, declared |-> {}]

ObjInstance(klass) ==
  [type |-> "instance", isMarked |-> FALSE, klass |-> klass,
   fields |-> [count |-> 0, capacity |-> 0, entries |-> <<>>]]

ObjBoundMethod(receiver, method) ==
  [type |-> "boundMethod", isMarked |-> FALSE, receiver |-> receiver, method |-> method]

\* location is a stack slot index while the upvalue points into the stack and
\* CLOSED once it points at its own closed field.
CLOSED == -1

\* Three history fields ride along: slot and act are the stack slot captured and
\* the frame activation that owned it, cell is the value last written to the
\* captured variable.
ObjUpvalue(slot, cell, act) ==
  [type |-> "upvalue", isMarked |-> FALSE, location |-> slot,
   closed |-> NIL_VAL, next |-> NULL, slot |-> slot, cell |-> cell, act |-> act]

\* ------------------------------------------------------------------ table
Entry(key, value) == [key |-> key, value |-> value]

initTable == [count |-> 0, capacity |-> 0, entries |-> <<>>]

\* A table is named by the VM field that holds it (obj = NULL) or by the heap
\* object and field that hold it.
VmTable(field) == [root |-> field, obj |-> NULL]
ObjTable(o, field) == [root |-> field, obj |-> o]

GetTable(s, tref) ==
  IF tref.obj = NULL THEN s[tref.root] ELSE s.heap[tref.obj][tref.root]

PutTable(s, tref, table) ==
  IF tref.obj = NULL THEN [s EXCEPT ![tref.root] = table]
  ELSE [s EXCEPT !.heap[tref.obj][tref.root] = table]

\* The probe loop of findEntry from slot at[1]; at[2] is the first tombstone
\* passed, or -1.
RECURSIVE findEntryLoop(_, _, _, _)
findEntryLoop(entries, capacity, key, at) ==
  LET index == at[1]
      tombstone == at[2]
      entry == entries[index + 1]
  IN  IF entry.key = NULL THEN
        IF IS_NIL(entry.value)
        THEN (IF tombstone # -1 THEN tombstone ELSE index)
        ELSE With(<<(index + 1) % capacity, IF tombstone = -1 THEN index ELSE tombstone>>,
                  LAMBDA next : findEntryLoop(entries, capacity, key, next))
      ELSE IF entry.key = key THEN index
      ELSE With(<<(index + 1) % capacity, tombstone>>,
                LAMBDA next : findEntryLoop(entries, capacity, key, next))

\* The index of the entry findEntry returns a pointer to.
findEntry(h, entries, capacity, key) ==
  With(<<HashIndex(h[key].hash, capacity), -1>>,
       LAMBDA start : findEntryLoop(entries, capacity, key, start))

\* [found, value]: the return value and the out parameter.
tableGet(s, tref, key) ==
  With(GetTable(s, tref), LAMBDA table :
    IF table.count = 0 THEN [found |-> FALSE, value |-> NIL_VAL]
    ELSE With(table.entries[findEntry(s.heap, table.entries, table.capacity, key) + 1],
              LAMBDA entry :
                IF entry.key = NULL THEN [found |-> FALSE, value |-> NIL_VAL]
                ELSE [found |-> TRUE, value |-> entry.value]))

\* A tableDelete that empties the slot instead of leaving a tombstone.
tableDeleteToEmpty(s, tref, key) ==
  With(GetTable(s, tref), LAMBDA table :
    IF table.count = 0 THEN [s |-> s, r |-> FALSE]
    ELSE With(findEntry(s.heap, table.entries, table.capacity, key), LAMBDA i :
           IF table.entries[i + 1].key = NULL THEN [s |-> s, r |-> FALSE]
           ELSE [s |-> PutTable(s, tref,
                         [table EXCEPT !.entries[i + 1] = Entry(NULL, NIL_VAL)]),
                 r |-> TRUE]))

\* A tableDelete that takes the deleted entry out of count although the
\* tombstone stays in the array.
tableDeleteUncounted(s, tref, key) ==
  With(GetTable(s, tref), LAMBDA table :
    IF table.count = 0 THEN [s |-> s, r |-> FALSE]
    ELSE With(findEntry(s.heap, table.entries, table.capacity, key), LAMBDA i :
           IF table.entries[i + 1].key = NULL THEN [s |-> s, r |-> FALSE]
           ELSE [s |-> PutTable(s, tref,
                         [table EXCEPT !.count = @ - 1,
                                       !.entries[i + 1] = Entry(NULL, BOOL_VAL(TRUE))]),
                 r |-> TRUE]))

\* [s, r]: the state after the call and the return value.
tableDelete(s, tref, key) ==
  With(GetTable(s, tref), LAMBDA table :
    IF table.count = 0 THEN [s |-> s, r |-> FALSE]
    ELSE With(findEntry(s.heap, table.entries, table.capacity, key), LAMBDA i :
           IF table.entries[i + 1].key = NULL THEN [s |-> s, r |-> FALSE]
           ELSE [s |-> PutTable(s, tref,
                         [table EXCEPT !.entries[i + 1] = Entry(NULL, BOOL_VAL(TRUE))]),
                 r |-> TRUE]))

RECURSIVE tableFindStringLoop(_, _, _, _, _)
tableFindStringLoop(h, table, chars, hash, index) ==
  LET entry == table.entries[index + 1] IN
  IF entry.key = NULL /\ IS_NIL(entry.value) THEN NULL
  ELSE IF entry.key # NULL /\ Len(h[entry.key].chars) = Len(chars)
          /\ h[entry.key].hash = hash /\ h[entry.key].chars = chars
       THEN entry.key
  ELSE With((index + 1) % table.capacity,
            LAMBDA next : tableFindStringLoop(h, table, chars, hash, next))

tableFindString(s, tref, chars, hash) ==
  With(GetTable(s, tref), LAMBDA table :
    IF table.count = 0 THEN NULL
    ELSE With(HashIndex(hash, table.capacity),
              LAMBDA start : tableFindStringLoop(s.heap, table, chars, hash, start)))

RECURSIVE tableRemoveWhiteFrom(_, _, _)
tableRemoveWhiteFrom(s, tref, i) ==
  IF i >= GetTable(s, tref).capacity THEN s
  ELSE With(<<With(GetTable(s, tref).entries[i + 1], LAMBDA entry :
                IF entry.key # NULL /\ ~s.heap[entry.key].isMarked
                THEN tableDelete(s, tref, entry.key).s ELSE s),
              i + 1>>,
            LAMBDA n : tableRemoveWhiteFrom(n[1], tref, n[2]))

tableRemoveWhite(s, tref) == tableRemoveWhiteFrom(s, tref, 0)

\* --------------------------------------------------------------- collector
\* Reading the mark bit of freed memory is recorded in fault.
markObject(s, o) ==
  IF o = NULL THEN s
  ELSE IF s.heap[o].type = "freed" THEN [s EXCEPT !.fault = "deref"]
  ELSE IF s.heap[o].isMarked THEN s
  ELSE [s EXCEPT !.heap[o].isMarked = TRUE, !.grayStack = Append(@, o)]

markValue(s, value) == IF IS_OBJ(value) THEN markObject(s, AS_OBJ(value)) ELSE s

RECURSIVE markArrayFrom(_, _, _)
markArrayFrom(s, values, i) ==
  IF i > Len(values) THEN s
  ELSE With(<<markValue(s, values[i]), i + 1>>,
            LAMBDA n : markArrayFrom(n[1], values, n[2]))

markArray(s, values) == markArrayFrom(s, values, 1)

RECURSIVE markObjectsFrom(_, _, _)
markObjectsFrom(s, ptrs, i) ==
  IF i > Len(ptrs) THEN s
  ELSE With(<<markObject(s, ptrs[i]), i + 1>>,
            LAMBDA n : markObjectsFrom(n[1], ptrs, n[2]))

RECURSIVE markTableFrom(_, _, _)
markTableFrom(s, table, i) ==
  IF i >= table.capacity THEN s
  ELSE With(<<With(markObject(s, table.entries[i + 1].key), LAMBDA s1 :
                markValue(s1, table.entries[i + 1].value)),
              i + 1>>,
            LAMBDA n : markTableFrom(n[1], table, n[2]))

\* markTable that marks nothing.
markTableSkipped(s, table) == s

markTable(s, table) == markTableFrom(s, table, 0)

blackenObject(s, o) ==
  With(s.heap[o], LAMBDA object :
    CASE object.type = "boundMethod" ->
           With(markValue(s, object.receiver), LAMBDA s1 : markObject(s1, object.method))
      [] object.type = "class" ->
           With(markObject(s, object.name), LAMBDA s1 : markTable(s1, object.methods))
      [] object.type = "closure" ->
           With(markObject(s, object.function),
                LAMBDA s1 : markObjectsFrom(s1, object.upvalues, 1))
      [] object.type = "function" ->
           With(markObject(s, object.name), LAMBDA s1 : markArray(s1, object.constants))
      [] object.type = "instance" ->
           With(markObject(s, object.klass), LAMBDA s1 : markTable(s1, object.fields))
      [] object.type = "upvalue" -> markValue(s, object.closed)
      [] OTHER -> s)

\* The open-upvalue list from upvalue u, following the next pointers.
RECURSIVE UpvalueList(_, _)
UpvalueList(h, u) ==
  IF u = NULL THEN <<>>
  ELSE With(h[u].next, LAMBDA next : <<u>> \o UpvalueList(h, next))

\* markCompilerRoots: the functions of the compiler chain from current outwards
\* (s.compilers[1] is current).
markCompilerRoots(s) ==
  With([i \in 1..Len(s.compilers) |-> s.compilers[i].function],
       LAMBDA functions : markObjectsFrom(s, functions, 1))

markRoots(s) ==
  With(markArray(s, SubSeq(s.stack, 1, s.stackTop)), LAMBDA s1 :
  With(markObjectsFrom(s1, [i \in 1..Len(s.frames) |-> s.frames[i].closure], 1), LAMBDA s2 :
  With(markObjectsFrom(s2, UpvalueList(s.heap, s.openUpvalues), 1), LAMBDA s3 :
  With(markTable(s3, s.globals), LAMBDA s4 :
  With(markCompilerRoots(s4), LAMBDA s5 :
    markObject(s5, s.initString))))))

RECURSIVE traceReferences(_)
traceReferences(s) ==
  IF Len(s.grayStack) = 0 THEN s
  ELSE With(blackenObject([s EXCEPT !.grayStack = SubSeq(@, 1, Len(@) - 1)],
                          s.grayStack[Len(s.grayStack)]),
            LAMBDA s1 : traceReferences(s1))

\* free() of an object; a second free() of the same object is a fault.
freeObject(s, o) ==
  IF s.heap[o].type = "freed" THEN [s EXCEPT !.fault = "free"]
  ELSE [s EXCEPT !.heap[o] = FREED]

\* sweep from the i-th object of the list; kept is the list rebuilt so far.
RECURSIVE sweepFrom(_, _, _)
sweepFrom(s, i, kept) ==
  IF i > Len(s.objects) THEN [s EXCEPT !.objects = kept]
  ELSE With(With(s.objects[i], LAMBDA object :
              IF s.heap[object].isMarked
              THEN <<[s EXCEPT !.heap[object].isMarked = FALSE], i + 1, Append(kept, object)>>
              ELSE <<freeObject(s, object), i + 1, kept>>),
            LAMBDA n : sweepFrom(n[1], n[2], n[3]))

\* A sweep that unlinks and frees the unmarked objects but leaves the mark of
\* the objects it keeps.
RECURSIVE sweepKeepMarksFrom(_, _, _)
sweepKeepMarksFrom(s, i, kept) ==
  IF i > Len(s.objects) THEN [s EXCEPT !.objects = kept]
  ELSE With(With(s.objects[i], LAMBDA object :
              IF s.heap[object].isMarked
              THEN <<s, i + 1, Append(kept, object)>>
              ELSE <<freeObject(s, object), i + 1, kept>>),
            LAMBDA n : sweepKeepMarksFrom(n[1], n[2], n[3]))

sweepKeepMarks(s) == sweepKeepMarksFrom(s, 1, <<>>)

\* A sweep that frees the unmarked objects and leaves them on the list.
RECURSIVE sweepKeepLinksFrom(_, _)
sweepKeepLinksFrom(s, i) ==
  IF i > Len(s.objects) THEN s
  ELSE With(With(s.objects[i], LAMBDA object :
              IF s.heap[object].isMarked
              THEN <<[s EXCEPT !.heap[object].isMarked = FALSE], i + 1>>
              ELSE <<freeObject(s, object), i + 1>>),
            LAMBDA n : sweepKeepLinksFrom(n[1], n[2]))

sweepKeepLinks(s) == sweepKeepLinksFrom(s, 1)

sweep(s) == sweepFrom(s, 1, <<>>)

\* freeObjects from the i-th object of the list; vm.objects itself is left as
\* it is, as is every next pointer.
RECURSIVE freeObjectsFrom(_, _)
freeObjectsFrom(s, i) ==
  IF i > Len(s.objects) THEN [s EXCEPT !.grayStack = <<>>]
  ELSE With(<<freeObject(s, s.objects[i]), i + 1>>,
            LAMBDA n : freeObjectsFrom(n[1], n[2]))

freeObjects(s) == freeObjectsFrom(s, 1)

freeTable(s, tref) == PutTable(s, tref, initTable)

freeVM(s) ==
  With(freeTable(s, VmTable("globals")), LAMBDA s1 :
  With(freeTable(s1, VmTable("strings")), LAMBDA s2 :
    freeObjects([s2 EXCEPT !.initString = NULL])))

\* ------------------------------------------------- what the program reaches
ObjsOf(values) == {AS_OBJ(values[i]) : i \in {j \in DOMAIN values : IS_OBJ(values[j])}}

TableObjs(table) ==
  UNION {{table.entries[i].key} \union ObjsOf(<<table.entries[i].value>>) :
           i \in {j \in 1..table.capacity : table.entries[j].key # NULL}}

\* The value an upvalue's location points at.
UpvalueCell(s, upvalue) ==
  IF upvalue.location = CLOSED THEN upvalue.closed ELSE s.stack[upvalue.location + 1]

\* The objects object o refers to.
Refs(s, o) ==
  LET object == s.heap[o] IN
  CASE object.type = "closure" ->
         {object.function} \union {object.upvalues[i] : i \in DOMAIN object.upvalues}
    [] object.type = "function" -> {object.name} \union ObjsOf(object.constants)
    [] object.type = "upvalue" -> ObjsOf(<<UpvalueCell(s, object)>>)
    [] object.type = "class" -> {object.name} \union TableObjs(object.methods)
    [] object.type = "instance" -> {object.klass} \union TableObjs(object.fields)
    [] object.type = "boundMethod" -> {object.method} \union ObjsOf(<<object.receiver>>)
    [] OTHER -> {}

Roots(s) ==
  ObjsOf(SubSeq(s.stack, 1, s.stackTop))
    \union {s.frames[i].closure : i \in DOMAIN s.frames}
    \union {u \in 1..Len(s.heap) : \E i \in DOMAIN UpvalueList(s.heap, s.openUpvalues) :
                                      UpvalueList(s.heap, s.openUpvalues)[i] = u}
    \union TableObjs(s.globals)
    \union {s.compilers[i].function : i \in DOMAIN s.compilers}
    \union {s.initString}

RECURSIVE ReachFrom(_, _)
ReachFrom(s, set) ==
  With((set \union UNION {Refs(s, o) : o \in set}) \ {NULL}, LAMBDA more :
    IF more = set THEN set ELSE ReachFrom(s, more))

\* The objects the program can still reach: from the roots, through object
\* references and the value in an upvalue's cell.
Reachable(s) == With(Roots(s) \ {NULL}, LAMBDA roots : ReachFrom(s, roots))

\* The record of the collections so far: lost holds the objects a collection
\* freed (or dropped from vm.objects) although the program could reach them,
\* kept the objects it left allocated although the program could not.
Audit(before, after) ==
  With({o \in Reachable(before) : IsLive(before.heap, o)}, LAMBDA reach :
    [lost |-> after.audit.lost \union
                {o \in reach : ~IsLive(after.heap, o)
                                  \/ ~\E i \in DOMAIN after.objects : after.objects[i] = o},
     kept |-> after.audit.kept \union
                {o \in 1..Len(after.heap) : IsLive(after.heap, o) /\ o \notin reach}])

\* A collection that sweeps without tableRemoveWhite.
collectGarbageKeepStrings(s) ==
  With(markRoots(s), LAMBDA s1 :
  With(traceReferences(s1), LAMBDA s2 :
  With(sweep(s2), LAMBDA s4 :
    [s4 EXCEPT !.audit = Audit(s, s4)])))

collectGarbage(s) ==
  With(markRoots(s), LAMBDA s1 :
  With(traceReferences(s1), LAMBDA s2 :
  With(tableRemoveWhite(s2, VmTable("strings")), LAMBDA s3 :
  With(sweep(s3), LAMBDA s4 :
    [s4 EXCEPT !.audit = Audit(s, s4)]))))

\* reallocate, as far as the collector is concerned: a growing request runs a
\* collection when the threshold is passed (or in stress mode); gc is that
\* condition, which depends on the sizes of earlier allocations.
reallocate(s, oldSize, newSize, gc) ==
  IF newSize > oldSize /\ gc THEN collectGarbage(s) ELSE s

\* [s, p]: the state after the call and the address of the new object.
allocateObject(s, object, gc) ==
  With(reallocate(s, 0, 1, gc), LAMBDA s1 :
    With(Len(s1.heap) + 1, LAMBDA p :
      [s |-> [s1 EXCEPT !.heap = Append(@, [object EXCEPT !.isMarked = FALSE]),
                         !.objects = <<p>> \o @],
       p |-> p]))

\* ------------------------------------------------------------ push and pop
\* push has no test of stackTop: with STACK_MAX values on the stack the store
\* goes past the end of vm.stack.
push(s, value) ==
  IF s.stackTop >= STACK_MAX THEN [s EXCEPT !.fault = "overflow"]
  ELSE [s EXCEPT !.stack[s.stackTop + 1] = value, !.stackTop = @ + 1]

pop(s) == [s EXCEPT !.stackTop = @ - 1]

\* peek(distance) = vm.stackTop[-1 - distance]
peek(s, distance) == s.stack[s.stackTop - distance]

\* ------------------------------------------------------- table, continued
\* The re-insertion loop of adjustCapacity: new[1] is the new array, new[2] the
\* number of keys copied so far.
RECURSIVE adjustCapacityCopy(_, _, _, _, _)
adjustCapacityCopy(h, old, i, new, capacity) ==
  IF i >= old.capacity THEN [entries |-> new[1], count |-> new[2]]
  ELSE With(old.entries[i + 1], LAMBDA entry :
         With(IF entry.key = NULL THEN <<new[1], new[2], i + 1>>
              ELSE <<[new[1] EXCEPT ![findEntry(h, new[1], capacity, entry.key) + 1] =
                                      Entry(entry.key, entry.value)],
                     new[2] + 1, i + 1>>,
              LAMBDA n : adjustCapacityCopy(h, old, n[3], n, capacity)))

adjustCapacity(s, tref, capacity, gc) ==
  With(reallocate(s, 0, capacity, gc), LAMBDA s1 :
    With(adjustCapacityCopy(s1.heap, GetTable(s1, tref), 0,
           <<[i \in 1..capacity |-> Entry(NULL, NIL_VAL)], 0>>, capacity),
         LAMBDA new :
           PutTable(s1, tref,
             [count |-> new.count, capacity |-> capacity, entries |-> new.entries])))

GROW_CAPACITY(capacity) ==
  IF capacity < TABLE_MIN_CAPACITY THEN TABLE_MIN_CAPACITY ELSE capacity * GROW_FACTOR

\* A growth test that lets the array fill up (load factor 1).
TableMustGrowWhenFull(table) == table.count + 1 > table.capacity

\* table->count + 1 > table->capacity * 0.75
TableMustGrow(table) == (table.count + 1) * 4 > table.capacity * 3

\* [s, r]: the state after the call and the return value (isNewKey).
tableSet(s, tref, key, value, gc) ==
  With(IF TableMustGrow(GetTable(s, tref))
       THEN adjustCapacity(s, tref, GROW_CAPACITY(GetTable(s, tref).capacity), gc)
       ELSE s,
       LAMBDA s1 :
    With(GetTable(s1, tref), LAMBDA table :
      With(findEntry(s1.heap, table.entries, table.capacity, key), LAMBDA i :
        With(table.entries[i + 1], LAMBDA entry :
          [s |-> PutTable(s1, tref,
                   [table EXCEPT !.count = IF entry.key = NULL /\ IS_NIL(entry.value)
                                           THEN @ + 1 ELSE @,
                                 !.entries[i + 1] = Entry(key, value)]),
           r |-> entry.key = NULL]))))

RECURSIVE tableAddAllFrom(_, _, _, _, _)
tableAddAllFrom(s, from, to, i, gc) ==
  With(GetTable(s, from), LAMBDA table :
    IF i >= table.capacity THEN s
    ELSE With(table.entries[i + 1], LAMBDA entry :
           With(<<IF entry.key # NULL
                  THEN tableSet(s, to, entry.key, entry.value, gc).s ELSE s, i + 1>>,
                LAMBDA n : tableAddAllFrom(n[1], from, to, n[2], gc))))

\* tableAddAll that copies nothing.
tableAddAllNothing(s, from, to, gc) == s

tableAddAll(s, from, to, gc) == tableAddAllFrom(s, from, to, 0, gc)

\* ---------------------------------------------------------------- strings
\* [s, p]: allocateString; gc[1] is the collection at the object's allocation,
\* gc[2] the one at the intern table's growth.
allocateString(s, chars, hash, gc) ==
  With(allocateObject(s, ObjString(chars, hash), gc[1]), LAMBDA a :
    With(push(a.s, OBJ_VAL(a.p)), LAMBDA s1 :
      With(tableSet(s1, VmTable("strings"), a.p, NIL_VAL, gc[2]).s, LAMBDA s2 :
        [s |-> pop(s2), p |-> a.p])))

\* [s, p]: takeString(chars, length); the caller has allocated chars.
takeString(s, chars, gc) ==
  With(hashString(chars), LAMBDA hash :
    With(tableFindString(s, VmTable("strings"), chars, hash), LAMBDA interned :
      IF interned # NULL THEN [s |-> s, p |-> interned]
      ELSE allocateString(s, chars, hash, gc)))

\* A copyString that allocates without consulting the intern table.
copyStringNoLookup(s, chars, gc) ==
  With(reallocate(s, 0, Len(chars) + 1, gc[1]), LAMBDA s1 :
    allocateString(s1, chars, hashString(chars), <<gc[2], gc[3]>>))

\* [s, p]: copyString(chars, length); gc[1] is the collection at the allocation
\* of the character array, gc[2] and gc[3] those of allocateString.
copyString(s, chars, gc) ==
  With(hashString(chars), LAMBDA hash :
    With(tableFindString(s, VmTable("strings"), chars, hash), LAMBDA interned :
      IF interned # NULL THEN [s |-> s, p |-> interned]
      ELSE With(reallocate(s, 0, Len(chars) + 1, gc[1]), LAMBDA s1 :
             allocateString(s1, chars, hash, <<gc[2], gc[3]>>))))

NoGC == <<FALSE, FALSE, FALSE>>

\* ------------------------------------------------------------------ initVM
resetStack(s) ==
  [s EXCEPT !.stackTop = 0, !.frames = <<>>, !.openUpvalues = NULL]

defineNative(s, name) ==
  With(copyString(s, name, NoGC), LAMBDA c :
    With(push(c.s, OBJ_VAL(c.p)), LAMBDA s1 :
      With(allocateObject(s1, ObjNative, FALSE), LAMBDA n :
        With(push(n.s, OBJ_VAL(n.p)), LAMBDA s2 :
          With(tableSet(s2, VmTable("globals"), AS_OBJ(s2.stack[1]), s2.stack[2], FALSE).s,
               LAMBDA s3 : pop(pop(s3)))))))

STR_init  == <<105, 110, 105, 116>>
STR_clock == <<99, 108, 111, 99, 107>>

\* The all-zero VM the program starts from.
ZeroVM ==
  [heap |-> <<>>, objects |-> <<>>,
   stack |-> [i \in 1..MaxStack |-> NIL_VAL], stackTop |-> 0,
   frames |-> <<>>, openUpvalues |-> NULL,
   globals |-> initTable, strings |-> initTable, initString |-> NULL,
   grayStack |-> <<>>, compilers |-> <<>>,
   tbl |-> initTable, src |-> initTable, fault |-> "none",
   audit |-> [lost |-> {}, kept |-> {}], acts |-> 0]

initVM ==
  With(resetStack(ZeroVM), LAMBDA s0 :
    With(copyString(s0, STR_init, NoGC), LAMBDA c :
      With([c.s EXCEPT !.initString = c.p], LAMBDA s1 :
        defineNative(s1, STR_clock))))

\* ----------------------------------------------------- object constructors
\* [s, p]
newFunction(s, gc) == allocateObject(s, ObjFunction, gc)

\* [s, p]: gc[1] is the collection at the allocation of the upvalue array, gc[2]
\* the one at the allocation of the closure.
newClosure(s, function, gc) ==
  With(s.heap[function].upvalueCount, LAMBDA n :
    With(reallocate(s, 0, n, gc[1]), LAMBDA s1 :
      allocateObject(s1, ObjClosure(function, [i \in 1..n |-> NULL]), gc[2])))

\* [s, p]: slot is the stack index the new upvalue points at.
newUpvalue(s, slot, gc) ==
  allocateObject(s, ObjUpvalue(slot, s.stack[slot + 1], s.frames[Len(s.frames)].act), gc)

newClass(s, name, gc) == allocateObject(s, ObjClass(name), gc)

newInstance(s, klass, gc) == allocateObject(s, ObjInstance(klass), gc)

newBoundMethod(s, receiver, method, gc) ==
  allocateObject(s, ObjBoundMethod(receiver, method), gc)

\* writeValueArray grows the array when it is full: at 0, 8, 16, ... values.
ArrayIsFull(count) ==
  count = 0 \/ (count >= TABLE_MIN_CAPACITY /\ \E e \in 0..16 : count = 2 ^ e)

\* addConstant(&function->chunk, value), without its return value.
addConstant(s, function, value, gc) ==
  With(push(s, value), LAMBDA s1 :
    With(reallocate(s1, 0, 1, gc /\ ArrayIsFull(Len(s1.heap[function].constants))),
         LAMBDA s2 :
           pop([s2 EXCEPT !.heap[function].constants = Append(@, value)])))

\* ------------------------------------------------------------------- calls
\* The prints of runtimeError leave the state alone; resetStack does not.
runtimeErrorNoReset(s) == s

runtimeError(s) == resetStack(s)

\* The CallFrame call pushes; act numbers the activation, instance is the
\* instance newInstance made when the frame runs a class's initializer, and
\* receiver the value the method the frame runs was called on (nil for a
\* function).
CallFrame(s, closure, argCount) ==
  [closure |-> closure, ip |-> 1, slots |-> s.stackTop - argCount - 1,
   act |-> s.acts + 1, instance |-> NULL, receiver |-> NIL_VAL]

\* What a failed call reports.
Failed(s, message) == [s |-> runtimeError(s), r |-> FALSE, message |-> message]

Called(s) == [s |-> s, r |-> TRUE, message |-> ""]

\* call without the check of frameCount.
callUnbounded(s, closure, argCount) ==
  IF argCount # s.heap[s.heap[closure].function].arity
  THEN Failed(s, "Expected %d arguments but got %d.")
  ELSE Called([s EXCEPT !.frames = Append(@, CallFrame(s, closure, argCount)),
                        !.acts = @ + 1])

\* [s, r, message]: call(closure, argCount)
call(s, closure, argCount) ==
  IF argCount # s.heap[s.heap[closure].function].arity
  THEN Failed(s, "Expected %d arguments but got %d.")
  ELSE IF Len(s.frames) = FRAMES_MAX
  THEN Failed(s, "Stack overflow.")
  ELSE Called([s EXCEPT !.frames = Append(@, CallFrame(s, closure, argCount)),
                        !.acts = @ + 1])

\* The OBJ_BOUND_METHOD case of callValue without the write to the callee's
\* slot.
callBoundKeepCallee(s, bound, argCount) == call(s, bound.method, argCount)

\* The OBJ_BOUND_METHOD case of callValue.
callBound(s, bound, argCount) ==
  With([s EXCEPT !.stack[s.stackTop - argCount] = bound.receiver], LAMBDA s1 :
    call(s1, bound.method, argCount))

\* The OBJ_CLASS case of callValue.
callClass(s, klass, argCount, gc) ==
  With(newInstance(s, klass, gc), LAMBDA n :
    With([n.s EXCEPT !.stack[n.s.stackTop - argCount] = OBJ_VAL(n.p)], LAMBDA s1 :
      With(tableGet(s1, ObjTable(klass, "methods"), s1.initString), LAMBDA initializer :
        IF initializer.found
        THEN With(call(s1, AS_OBJ(initializer.value), argCount), LAMBDA c :
               IF c.r THEN [c EXCEPT !.s.frames[Len(c.s.frames)].instance = n.p,
                                     !.s.frames[Len(c.s.frames)].receiver = OBJ_VAL(n.p)]
               ELSE c)
        ELSE IF argCount # 0 THEN Failed(s1, "Expected 0 arguments but got %d.")
        ELSE Called(s1))))

\* [s, r, message]: callValue(callee, argCount); a callee in freed memory is
\* recorded in fault.
callValue(s, callee, argCount, gc) ==
  IF IS_OBJ(callee) /\ s.heap[AS_OBJ(callee)].type = "freed"
  THEN [s |-> [s EXCEPT !.fault = "deref"], r |-> FALSE, message |-> ""]
  ELSE IF IS_OBJ(callee) /\ s.heap[AS_OBJ(callee)].type = "boundMethod"
  THEN callBound(s, s.heap[AS_OBJ(callee)], argCount)
  ELSE IF IS_OBJ(callee) /\ s.heap[AS_OBJ(callee)].type = "class"
  THEN callClass(s, AS_OBJ(callee), argCount, gc)
  ELSE IF IS_OBJ(callee) /\ s.heap[AS_OBJ(callee)].type = "closure"
  THEN call(s, AS_OBJ(callee), argCount)
  ELSE IF IS_OBJ(callee) /\ s.heap[AS_OBJ(callee)].type = "native"
  THEN Called(push([s EXCEPT !.stackTop = @ - (argCount + 1)], NUMBER_VAL(0)))
  ELSE Failed(s, "Can only call functions and classes.")

invokeFromClass(s, klass, name, argCount) ==
  With(tableGet(s, ObjTable(klass, "methods"), name), LAMBDA method :
    IF ~method.found THEN Failed(s, "Undefined property '%s'.")
    ELSE call(s, AS_OBJ(method.value), argCount))

IS_INSTANCE(s, value) == IS_OBJ(value) /\ s.heap[AS_OBJ(value)].type = "instance"

IS_CLASS(s, value) == IS_OBJ(value) /\ s.heap[AS_OBJ(value)].type = "class"

\* invoke that looks the name up among the methods of the class only.
invokeMethodOnly(s, name, argCount, gc) ==
  With(peek(s, argCount), LAMBDA receiver :
    IF ~IS_INSTANCE(s, receiver) THEN Failed(s, "Only instances have methods.")
    ELSE invokeFromClass(s, s.heap[AS_OBJ(receiver)].klass, name, argCount))

invoke(s, name, argCount, gc) ==
  With(peek(s, argCount), LAMBDA receiver :
    IF ~IS_INSTANCE(s, receiver) THEN Failed(s, "Only instances have methods.")
    ELSE With(AS_OBJ(receiver), LAMBDA instance :
      With(tableGet(s, ObjTable(instance, "fields"), name), LAMBDA field :
        IF field.found
        THEN With([s EXCEPT !.stack[s.stackTop - argCount] = field.value], LAMBDA s1 :
               callValue(s1, field.value, argCount, gc))
        ELSE invokeFromClass(s, s.heap[instance].klass, name, argCount))))

bindMethod(s, klass, name, gc) ==
  With(tableGet(s, ObjTable(klass, "methods"), name), LAMBDA method :
    IF ~method.found THEN Failed(s, "Undefined property '%s'.")
    ELSE With(newBoundMethod(s, peek(s, 0), AS_OBJ(method.value), gc), LAMBDA bound :
           Called(push(pop(bound.s), OBJ_VAL(bound.p)))))

\* OP_GET_PROPERTY from the lookup of the field on: the instance on top of the
\* stack is replaced by the field's value or by a new bound method.
getProperty(s, name, gc) ==
  IF ~IS_INSTANCE(s, peek(s, 0)) THEN Failed(s, "Only instances have properties.")
  ELSE With(AS_OBJ(peek(s, 0)), LAMBDA instance :
    With(tableGet(s, ObjTable(instance, "fields"), name), LAMBDA field :
      IF field.found THEN Called(push(pop(s), field.value))
      ELSE bindMethod(s, s.heap[instance].klass, name, gc)))

\* defineMethod that leaves the method on the stack.
defineMethodKeepMethod(s, name, gc) ==
  tableSet(s, ObjTable(AS_OBJ(peek(s, 1)), "methods"), name, peek(s, 0), gc).s

defineMethod(s, name, gc) ==
  pop(tableSet(s, ObjTable(AS_OBJ(peek(s, 1)), "methods"), name, peek(s, 0), gc).s)

\* ---------------------------------------------------------------- upvalues
\* The walk of captureUpvalue: <<prevUpvalue, upvalue>> when the loop ends.
RECURSIVE captureWalk(_, _, _)
captureWalk(h, at, local) ==
  IF at[2] # NULL /\ h[at[2]].location > local
  THEN With(<<at[2], h[at[2]].next>>, LAMBDA next : captureWalk(h, next, local))
  ELSE at

\* [s, p]: captureUpvalue(local)
captureUpvalue(s, local, gc) ==
  With(captureWalk(s.heap, <<NULL, s.openUpvalues>>, local), LAMBDA at :
    IF at[2] # NULL /\ s.heap[at[2]].location = local THEN [s |-> s, p |-> at[2]]
    ELSE With(newUpvalue(s, local, gc), LAMBDA created :
           With([created.s EXCEPT !.heap[created.p].next = at[2]], LAMBDA s1 :
             [s |-> IF at[1] = NULL THEN [s1 EXCEPT !.openUpvalues = created.p]
                    ELSE [s1 EXCEPT !.heap[at[1]].next = created.p],
              p |-> created.p])))

RECURSIVE closeUpvalues(_, _)
closeUpvalues(s, last) ==
  IF s.openUpvalues # NULL /\ s.heap[s.openUpvalues].location >= last
  THEN With(s.openUpvalues, LAMBDA upvalue :
         With([s EXCEPT !.heap[upvalue].closed = s.stack[s.heap[upvalue].location + 1],
                        !.heap[upvalue].location = CLOSED,
                        !.openUpvalues = s.heap[upvalue].next],
              LAMBDA s1 : closeUpvalues(s1, last)))
  ELSE s

\* The upvalue operands of OP_CLOSURE from the i-th on.
RECURSIVE fillUpvalues(_, _, _, _, _)
fillUpvalues(s, closure, frame, i, gc) ==
  IF i > s.heap[closure].upvalueCount THEN s
  ELSE With(s.heap[s.heap[closure].function].upvalues[i], LAMBDA operand :
         With(IF operand.isLocal
              THEN captureUpvalue(s, frame.slots + operand.index, gc)
              ELSE [s |-> s, p |-> s.heap[frame.closure].upvalues[operand.index + 1]],
              LAMBDA c :
                With(<<[c.s EXCEPT !.heap[closure].upvalues[i] = c.p], i + 1>>,
                     LAMBDA n : fillUpvalues(n[1], closure, frame, n[2], gc))))

\* ------------------------------------------------------------- concatenate
\* gc[1] is the collection at the allocation of the character array, gc[2] and
\* gc[3] those of takeString.  An operand in freed memory is recorded in fault.
concatenate(s, gc) ==
  With(<<AS_OBJ(peek(s, 1)), AS_OBJ(peek(s, 0))>>, LAMBDA ab :
    With(reallocate(s, 0, Len(s.heap[ab[1]].chars) + Len(s.heap[ab[2]].chars) + 1, gc[1]),
         LAMBDA s1 :
      IF ~IsLive(s1.heap, ab[1]) \/ ~IsLive(s1.heap, ab[2])
      THEN [s1 EXCEPT !.fault = "deref"]
      ELSE With(takeString(s1, s1.heap[ab[1]].chars \o s1.heap[ab[2]].chars,
                           <<gc[2], gc[3]>>),
                LAMBDA result : push(pop(pop(result.s)), OBJ_VAL(result.p)))))

\* The error branch of OP_SET_GLOBAL without its tableDelete.
undefinedVariableKeepKey(s, name) == runtimeError(s)

\* The error branch of OP_SET_GLOBAL: tableDelete, then runtimeError.
undefinedVariable(s, name) ==
  With(tableDelete(s, VmTable("globals"), name).s, LAMBDA s1 : runtimeError(s1))

\* --------------------------------------------------------------- compiler
\* initCompiler: fn is the function of the source text being compiled, name its
\* name (empty for the script).  gc[1] is the collection at newFunction, gc[2..4]
\* those of the copyString of the name.
initCompiler(s, fn, name, gc) ==
  With(newFunction(s, gc[1]), LAMBDA f :
    With([f.s EXCEPT !.compilers = <<[function |-> f.p, fn |-> fn, next |-> 1]>> \o @],
         LAMBDA s1 :
      IF name = <<>> THEN s1
      ELSE With(copyString(s1, name, <<gc[2], gc[3], gc[4]>>), LAMBDA c :
             [c.s EXCEPT !.heap[f.p].name = c.p])))

\* An instruction of a chunk: the opcode with its operand, and with its second
\* operand for the two invoke instructions.
Instr(op, a) == [op |-> op, a |-> a, b |-> 0]

Instr2(op, a, b) == [op |-> op, a |-> a, b |-> b]

\* c is a Compiler: its FunctionType and the code of its function's chunk.
emitByte(c, op) == [c EXCEPT !.code = Append(@, Instr(op, 0))]

emitBytes(c, op, operand) == [c EXCEPT !.code = Append(@, Instr(op, operand))]

\* emitReturn that returns nil from every function.
emitReturnNil(c) == emitByte(emitByte(c, "OP_NIL"), "OP_RETURN")

emitReturn(c) ==
  IF c.type = "TYPE_INITIALIZER"
  THEN emitByte(emitBytes(c, "OP_GET_LOCAL", 0), "OP_RETURN")
  ELSE emitByte(emitByte(c, "OP_NIL"), "OP_RETURN")

\* [s, p]: endCompiler; text is what the compiler has emitted for the function
\* before the emitReturn of endCompiler.
endCompiler(s, text) ==
  With(s.compilers[1].function, LAMBDA function :
    [s |-> [s EXCEPT !.heap[function].arity = text.arity,
                     !.heap[function].upvalueCount = Len(text.upvalues),
                     !.heap[function].upvalues = text.upvalues,
                     !.heap[function].code =
                        emitReturn([type |-> text.type, code |-> text.code]).code,
                     !.compilers = Tail(@)],
     p |-> function])


\* ------------------------------------------------------------------- state
VARIABLES
  heap,          \* the heap: address -> object record
  objects,       \* vm.objects: the all-objects list, head first
  stack,         \* vm.stack
  stackTop,      \* vm.stackTop - vm.stack
  frames,        \* vm.frames[0 .. frameCount-1]: [closure, ip, slots, act]
  openUpvalues,  \* vm.openUpvalues
  globals,       \* vm.globals
  strings,       \* vm.strings
  initString,    \* vm.initString
  grayStack,     \* vm.grayStack[0 .. grayCount-1]
  compilers,     \* the Compiler chain, current first
  tbl,           \* a Table of the embedding program (SpecTable)
  src,           \* a second Table, the source of tableAddAll (SpecTable)
  fault,         \* "none", or "deref" once freed memory has been read
  audit,         \* what the collections so far lost and kept (see Audit)
  acts,          \* frame activations so far
  stress,        \* the build collects at every growing allocation
  phase,         \* "idle", "compile", "run" or "fault": where interpret is
  prog,          \* the program interpret was called with
  result,        \* what the last interpret call returned
  runs,          \* interpret calls so far
  last,          \* the last instruction executed and what it saw
  ops,           \* table operations so far (SpecTable)
  tmodel,        \* the finite map tbl is meant to hold (SpecTable)
  tret,          \* the last table operation and what it returned (SpecTable)
  parser,        \* the compiler's Parser: hadError, panicMode, messages printed
  source,        \* the text a compiler function is applied to (SpecCompile)
  current,       \* the Compiler that function works on (SpecCompile)
  outcome,       \* what running the emitted chunk computes (SpecCompile)
  bytesAllocated, \* vm.bytesAllocated (SpecMemory)
  nextGC,        \* vm.nextGC (SpecMemory)
  collector      \* where a collection is, and what it did (SpecMemory)

vmvars == <<heap, objects, stack, stackTop, frames, openUpvalues, globals, strings,
            initString, grayStack, compilers, tbl, src, fault, audit, acts>>
runvars == <<stress, phase, prog, result, runs, last>>
tablevars == <<ops, tmodel, tret>>
unitvars == <<source, current, outcome>>
compvars == <<parser, unitvars>>
memvars == <<bytesAllocated, nextGC, collector>>
vars == <<vmvars, runvars, tablevars, compvars, memvars>>

\* The VM as one record, for the operators above.
VM ==
  [heap |-> heap, objects |-> objects, stack |-> stack, stackTop |-> stackTop,
   frames |-> frames, openUpvalues |-> openUpvalues, globals |-> globals,
   strings |-> strings, initString |-> initString, grayStack |-> grayStack,
   compilers |-> compilers, tbl |-> tbl, src |-> src, fault |-> fault,
   audit |-> audit, acts |-> acts]

Commit(s) ==
  /\ heap' = s.heap /\ objects' = s.objects /\ stack' = s.stack
  /\ stackTop' = s.stackTop /\ frames' = s.frames
  /\ openUpvalues' = s.openUpvalues /\ globals' = s.globals
  /\ strings' = s.strings /\ initString' = s.initString
  /\ grayStack' = s.grayStack /\ compilers' = s.compilers
  /\ tbl' = s.tbl /\ src' = s.src /\ fault' = s.fault
  /\ audit' = s.audit /\ acts' = s.acts

\* The variables hold the VM record s.
Holds(s) ==
  /\ heap = s.heap /\ objects = s.objects /\ stack = s.stack
  /\ stackTop = s.stackTop /\ frames = s.frames
  /\ openUpvalues = s.openUpvalues /\ globals = s.globals
  /\ strings = s.strings /\ initString = s.initString
  /\ grayStack = s.grayStack /\ compilers = s.compilers
  /\ tbl = s.tbl /\ src = s.src /\ fault = s.fault
  /\ audit = s.audit /\ acts = s.acts

NoTableOp ==
  [op |-> "none", key |-> NULL, r |-> FALSE, value |-> NIL_VAL, present |-> FALSE,
   expected |-> NIL_VAL]

\* The keys and values a table's entry array holds, read slot by slot.
TableContents(table) ==
  {<<table.entries[i].key, table.entries[i].value>> :
     i \in {j \in 1..table.capacity : table.entries[j].key # NULL}}

\* What an instruction leaves in last.
Saw(op) ==
  [op |-> op, name |-> NULL, value |-> NIL_VAL, expected |-> NIL_VAL,
   defined |-> FALSE, before |-> {}, chars |-> <<>>, message |-> "",
   height |-> 0, frameCount |-> 0]

\* The Parser before any compile, and as compile() resets it.
NoError == [hadError |-> FALSE, panicMode |-> FALSE, reported |-> <<>>]

\* errorAt that prints the message and enters panic mode but leaves hadError.
errorAtNoFlag(p, message) ==
  IF p.panicMode THEN p
  ELSE [p EXCEPT !.panicMode = TRUE, !.reported = Append(@, message)]

\* errorAt that reports in panic mode too.
errorAtInPanic(p, message) ==
  [p EXCEPT !.panicMode = TRUE, !.reported = Append(@, message), !.hadError = TRUE]

\* errorAt: in panic mode the error is dropped; otherwise the message is
\* printed and both flags are set.
errorAt(p, message) ==
  IF p.panicMode THEN p
  ELSE [p EXCEPT !.panicMode = TRUE, !.reported = Append(@, message), !.hadError = TRUE]

\* synchronize, as far as the Parser record is concerned.
synchronize(p) == [p EXCEPT !.panicMode = FALSE]

\* What compile returns for the function endCompiler handed back.
compileResult(p, function) == IF p.hadError THEN NULL ELSE function

Idle ==
  /\ phase = "idle" /\ prog = 0 /\ result = "none" /\ runs = 0 /\ last = Saw("none")
  /\ parser = NoError

\* ------------------------------------------------------ Spec: the programs
\* What compile emits for a source text: per function its constants in the
\* order makeConstant adds them, its upvalue operands and its instructions.
StrConst(chars) == [k |-> "str", chars |-> chars, fn |-> 0, message |-> ""]
FunConst(fn) == [k |-> "fun", chars |-> <<>>, fn |-> fn, message |-> ""]
\* A call of error() or errorAtCurrent() at this point of the text, and the end
\* of a declaration the parser reaches in panic mode.
ErrorItem(message) == [k |-> "err", chars |-> <<>>, fn |-> 0, message |-> message]
EndOfDeclaration == [k |-> "decl", chars |-> <<>>, fn |-> 0, message |-> ""]
LocalUpvalue(index) == [isLocal |-> TRUE, index |-> index]

STR_get == <<103, 101, 116>>
STR_set == <<115, 101, 116>>
STR_a == <<97>>
STR_b == <<98>>
STR_c == <<99>>
STR_g == <<103>>
STR_h == <<104>>
STR_u == <<117>>

\* fun g() { return x; }
TextG ==
  [name |-> STR_g, type |-> "TYPE_FUNCTION", arity |-> 0,
   upvalues |-> <<LocalUpvalue(2)>>, consts |-> <<>>,
   code |-> <<Instr("OP_GET_UPVALUE", 0), Instr("OP_RETURN", 0)>>]

\* fun h() { x = "b"; }
TextH ==
  [name |-> STR_h, type |-> "TYPE_FUNCTION", arity |-> 0,
   upvalues |-> <<LocalUpvalue(2)>>, consts |-> <<StrConst(STR_b)>>,
   code |-> <<Instr("OP_CONSTANT", 0), Instr("OP_SET_UPVALUE", 0), Instr("OP_POP", 0)>>]

\*   var get; var set;                  (only when declare)
\*   { var d; var x;
\*     fun g() { return x; }
\*     fun h() { x = "b"; }
\*     x = "a"; get = g; set = h;
\*     u = nil;                        (only when undefinedGlobal)
\*   }
\* k is the number of constants the declarations add: 2 or 0.
TextShareFrom(declare, undefinedGlobal, k) ==
  [name |-> <<>>, type |-> "TYPE_SCRIPT", arity |-> 0, upvalues |-> <<>>,
   consts |-> (IF declare THEN <<StrConst(STR_get), StrConst(STR_set)>> ELSE <<>>)
              \o <<FunConst(2), FunConst(3),
                   StrConst(STR_a), StrConst(STR_get), StrConst(STR_set)>>
              \o (IF undefinedGlobal THEN <<StrConst(STR_u)>> ELSE <<>>),
   code |-> (IF declare
             THEN <<Instr("OP_NIL", 0), Instr("OP_DEFINE_GLOBAL", 0),
                    Instr("OP_NIL", 0), Instr("OP_DEFINE_GLOBAL", 1)>>
             ELSE <<>>)
            \o <<Instr("OP_NIL", 0), Instr("OP_NIL", 0),
                 Instr("OP_CLOSURE", k), Instr("OP_CLOSURE", k + 1),
                 Instr("OP_CONSTANT", k + 2), Instr("OP_SET_LOCAL", 2), Instr("OP_POP", 0),
                 Instr("OP_GET_LOCAL", 3), Instr("OP_SET_GLOBAL", k + 3), Instr("OP_POP", 0),
                 Instr("OP_GET_LOCAL", 4), Instr("OP_SET_GLOBAL", k + 4), Instr("OP_POP", 0)>>
            \o (IF undefinedGlobal
                THEN <<Instr("OP_NIL", 0), Instr("OP_SET_GLOBAL", k + 5), Instr("OP_POP", 0)>>
                ELSE <<>>)
            \o <<Instr("OP_POP", 0), Instr("OP_POP", 0), Instr("OP_CLOSE_UPVALUE", 0),
                 Instr("OP_POP", 0)>>]

TextShare(declare, undefinedGlobal) ==
  TextShareFrom(declare, undefinedGlobal, IF declare THEN Len(<<STR_get, STR_set>>) ELSE 0)

\*   get() + "c"; set(); "c" + get();
TextUse ==
  [name |-> <<>>, type |-> "TYPE_SCRIPT", arity |-> 0, upvalues |-> <<>>,
   consts |-> <<StrConst(STR_get), StrConst(STR_c), StrConst(STR_set), StrConst(STR_c),
                StrConst(STR_get)>>,
   code |-> <<Instr("OP_GET_GLOBAL", 0), Instr("OP_CALL", 0), Instr("OP_CONSTANT", 1),
              Instr("OP_ADD", 0), Instr("OP_POP", 0),
              Instr("OP_GET_GLOBAL", 2), Instr("OP_CALL", 0), Instr("OP_POP", 0),
              Instr("OP_CONSTANT", 3), Instr("OP_GET_GLOBAL", 4), Instr("OP_CALL", 0),
              Instr("OP_ADD", 0), Instr("OP_POP", 0)>>]

\*   "a" +; +;
\* The right operand of the first + is missing: parsePrecedence reports it at
\* the ';' it has consumed, so the consume(';') of the expression statement
\* fails in panic mode and is dropped; synchronize stops at once, the previous
\* token being ';'.  The second statement starts with a token that has no
\* prefix rule.
TextError ==
  [name |-> <<>>, type |-> "TYPE_SCRIPT", arity |-> 0, upvalues |-> <<>>,
   consts |-> <<StrConst(STR_a), ErrorItem("Expect expression."),
                ErrorItem("Expect ';' after expression."), EndOfDeclaration,
                ErrorItem("Expect expression."), EndOfDeclaration>>,
   code |-> <<Instr("OP_CONSTANT", 0), Instr("OP_ADD", 0), Instr("OP_POP", 0),
              Instr("OP_POP", 0)>>]

\* The source texts with closures and globals: functions[1] is the script.
ClosurePrograms ==
  << [functions |-> <<TextShare(TRUE, FALSE), TextG, TextH>>],
     [functions |-> <<TextShare(TRUE, TRUE), TextG, TextH>>],
     [functions |-> <<TextShare(FALSE, FALSE), TextG, TextH>>],
     [functions |-> <<TextUse>>],
     [functions |-> <<TextError>>] >>

\* ------------------------------------------- programs with classes and loops
NumConst(n) == [k |-> "num", chars |-> <<n>>, fn |-> 0, message |-> ""]

STR_A == <<65>>
STR_C == <<67>>
STR_N == <<78>>
STR_B == <<66>>
STR_I == <<73>>
STR_M == <<77>>
STR_R == <<82>>
STR_S == <<83>>
STR_T == <<84>>
STR_f == <<102>>
STR_i == <<105>>
STR_k == <<107>>
STR_m == <<109>>
STR_bm == <<98, 109>>

\* The text of a method or function: the code is what the compiler emits for
\* the body, endCompiler adds the emitReturn.
Body(name, type, arity, upvalues, consts, code) ==
  [name |-> name, type |-> type, arity |-> arity, upvalues |-> upvalues,
   consts |-> consts, code |-> code]

Script(consts, code) == Body(<<>>, "TYPE_SCRIPT", 0, <<>>, consts, code)

\* returnStatement for "return;": the emitReturn of the function's type.
BareReturn(type, code) == emitReturn([type |-> type, code |-> code]).code

\*   m() { return 1; }
TextReturnOne ==
  Body(STR_m, "TYPE_METHOD", 0, <<>>, <<NumConst(1)>>,
       <<Instr("OP_CONSTANT", 0), Instr("OP_RETURN", 0)>>)

\*   init(x) { this.f = x; if (x) return; }
TextInit ==
  Body(STR_init, "TYPE_INITIALIZER", 1, <<>>, <<StrConst(STR_f)>>,
       BareReturn("TYPE_INITIALIZER",
                  <<Instr("OP_GET_LOCAL", 0), Instr("OP_GET_LOCAL", 1),
                    Instr("OP_SET_PROPERTY", 0), Instr("OP_POP", 0),
                    Instr("OP_GET_LOCAL", 1), Instr("OP_JUMP_IF_FALSE", 4),
                    Instr("OP_POP", 0)>>)
       \o <<Instr("OP_JUMP", 1), Instr("OP_POP", 0)>>)

\*   g() { return super.m; }
TextGetSuper ==
  Body(STR_g, "TYPE_METHOD", 0, <<LocalUpvalue(1)>>, <<StrConst(STR_m)>>,
       <<Instr("OP_GET_LOCAL", 0), Instr("OP_GET_UPVALUE", 0), Instr("OP_GET_SUPER", 0),
         Instr("OP_RETURN", 0)>>)

\*   h() { return super.m(); }
TextSuperInvoke ==
  Body(STR_h, "TYPE_METHOD", 0, <<LocalUpvalue(1)>>, <<StrConst(STR_m)>>,
       <<Instr("OP_GET_LOCAL", 0), Instr("OP_GET_UPVALUE", 0),
         Instr2("OP_SUPER_INVOKE", 0, 0), Instr("OP_RETURN", 0)>>)

\*   class A { m() { return 1; } }
\*   class B < A {
\*     init(x) { this.f = x; if (x) return; }
\*     g() { return super.m; }
\*     h() { return super.m(); }
\*   }
\*   var b = B(true); var c = B(false);
\*   print b.f;
\*   var bm = b.g; print bm();
\*   print b.g()();
\*   print b.h();
\*   print A();
\*   A(1);
TextClasses ==
  Script(<<StrConst(STR_A), StrConst(STR_A), StrConst(STR_m), FunConst(2),
           StrConst(STR_B), StrConst(STR_A), StrConst(STR_B), StrConst(STR_B),
           StrConst(STR_init), FunConst(3), StrConst(STR_g), FunConst(4),
           StrConst(STR_h), FunConst(5),
           StrConst(STR_b), StrConst(STR_B), StrConst(STR_c), StrConst(STR_B),
           StrConst(STR_b), StrConst(STR_f),
           StrConst(STR_bm), StrConst(STR_b), StrConst(STR_g), StrConst(STR_bm),
           StrConst(STR_b), StrConst(STR_g),
           StrConst(STR_b), StrConst(STR_h),
           StrConst(STR_A), StrConst(STR_A), NumConst(1)>>,
         <<Instr("OP_CLASS", 0), Instr("OP_DEFINE_GLOBAL", 0), Instr("OP_GET_GLOBAL", 1),
           Instr("OP_CLOSURE", 3), Instr("OP_METHOD", 2), Instr("OP_POP", 0),
           Instr("OP_CLASS", 4), Instr("OP_DEFINE_GLOBAL", 4), Instr("OP_GET_GLOBAL", 5),
           Instr("OP_GET_GLOBAL", 6), Instr("OP_INHERIT", 0), Instr("OP_GET_GLOBAL", 7),
           Instr("OP_CLOSURE", 9), Instr("OP_METHOD", 8),
           Instr("OP_CLOSURE", 11), Instr("OP_METHOD", 10),
           Instr("OP_CLOSURE", 13), Instr("OP_METHOD", 12),
           Instr("OP_POP", 0), Instr("OP_CLOSE_UPVALUE", 0),
           Instr("OP_GET_GLOBAL", 15), Instr("OP_TRUE", 0), Instr("OP_CALL", 1),
           Instr("OP_DEFINE_GLOBAL", 14),
           Instr("OP_GET_GLOBAL", 17), Instr("OP_FALSE", 0), Instr("OP_CALL", 1),
           Instr("OP_DEFINE_GLOBAL", 16),
           Instr("OP_GET_GLOBAL", 18), Instr("OP_GET_PROPERTY", 19), Instr("OP_PRINT", 0),
           Instr("OP_GET_GLOBAL", 21), Instr("OP_GET_PROPERTY", 22),
           Instr("OP_DEFINE_GLOBAL", 20),
           Instr("OP_GET_GLOBAL", 23), Instr("OP_CALL", 0), Instr("OP_PRINT", 0),
           Instr("OP_GET_GLOBAL", 24), Instr2("OP_INVOKE", 25, 0), Instr("OP_CALL", 0),
           Instr("OP_PRINT", 0),
           Instr("OP_GET_GLOBAL", 26), Instr2("OP_INVOKE", 27, 0), Instr("OP_PRINT", 0),
           Instr("OP_GET_GLOBAL", 28), Instr("OP_CALL", 0), Instr("OP_PRINT", 0),
           Instr("OP_GET_GLOBAL", 29), Instr("OP_CONSTANT", 30), Instr("OP_CALL", 1),
           Instr("OP_POP", 0)>>)

\*   k() { x = x - 1; }
TextDecrement ==
  Body(STR_k, "TYPE_FUNCTION", 0, <<LocalUpvalue(1)>>, <<NumConst(1)>>,
       <<Instr("OP_GET_UPVALUE", 0), Instr("OP_CONSTANT", 0), Instr("OP_SUBTRACT", 0),
         Instr("OP_SET_UPVALUE", 0), Instr("OP_POP", 0)>>)

\*   var i = 0;
\*   while (i < 2) i = i + 1;
\*   print !(6 / 3 - 1 * 2 == -0);
\*   print 2 > 1;
\*   if (true) nil; else false;
\*   print false;
\*   { var x = 1; x = 2; fun k() { x = x - 1; } k(); }
TextArithmetic ==
  Script(<<StrConst(STR_i), NumConst(0), StrConst(STR_i), NumConst(2),
           StrConst(STR_i), StrConst(STR_i), NumConst(1),
           NumConst(6), NumConst(3), NumConst(1), NumConst(2), NumConst(0),
           NumConst(2), NumConst(1), NumConst(1), NumConst(2), FunConst(2)>>,
         <<Instr("OP_CONSTANT", 1), Instr("OP_DEFINE_GLOBAL", 0),
           Instr("OP_GET_GLOBAL", 2), Instr("OP_CONSTANT", 3), Instr("OP_LESS", 0),
           Instr("OP_JUMP_IF_FALSE", 7), Instr("OP_POP", 0),
           Instr("OP_GET_GLOBAL", 5), Instr("OP_CONSTANT", 6), Instr("OP_ADD", 0),
           Instr("OP_SET_GLOBAL", 4), Instr("OP_POP", 0), Instr("OP_LOOP", 11),
           Instr("OP_POP", 0),
           Instr("OP_CONSTANT", 7), Instr("OP_CONSTANT", 8), Instr("OP_DIVIDE", 0),
           Instr("OP_CONSTANT", 9), Instr("OP_CONSTANT", 10), Instr("OP_MULTIPLY", 0),
           Instr("OP_SUBTRACT", 0), Instr("OP_CONSTANT", 11), Instr("OP_NEGATE", 0),
           Instr("OP_EQUAL", 0), Instr("OP_NOT", 0), Instr("OP_PRINT", 0),
           Instr("OP_CONSTANT", 12), Instr("OP_CONSTANT", 13), Instr("OP_GREATER", 0),
           Instr("OP_PRINT", 0),
           Instr("OP_TRUE", 0), Instr("OP_JUMP_IF_FALSE", 4), Instr("OP_POP", 0),
           Instr("OP_NIL", 0), Instr("OP_POP", 0), Instr("OP_JUMP", 3),
           Instr("OP_POP", 0), Instr("OP_FALSE", 0), Instr("OP_POP", 0),
           Instr("OP_FALSE", 0), Instr("OP_PRINT", 0),
           Instr("OP_CONSTANT", 14), Instr("OP_CONSTANT", 15), Instr("OP_SET_LOCAL", 1),
           Instr("OP_POP", 0), Instr("OP_CLOSURE", 16), Instr("OP_GET_LOCAL", 2),
           Instr("OP_CALL", 0), Instr("OP_POP", 0), Instr("OP_POP", 0),
           Instr("OP_CLOSE_UPVALUE", 0)>>)

\*   fun f() { f(); }  f();
TextCallSelf ==
  Body(STR_f, "TYPE_FUNCTION", 0, <<>>, <<StrConst(STR_f)>>,
       <<Instr("OP_GET_GLOBAL", 0), Instr("OP_CALL", 0), Instr("OP_POP", 0)>>)

TextCalls ==
  Script(<<StrConst(STR_f), FunConst(2), StrConst(STR_f)>>,
         <<Instr("OP_CLOSURE", 1), Instr("OP_DEFINE_GLOBAL", 0),
           Instr("OP_GET_GLOBAL", 2), Instr("OP_CALL", 0), Instr("OP_POP", 0)>>)

\* The script of: class X { <method> }  X().m();   or   X();
TextOneClass(name, method, invoked) ==
  Script(<<StrConst(name), StrConst(name), StrConst(method), FunConst(2), StrConst(name)>>
         \o (IF invoked THEN <<StrConst(STR_m)>> ELSE <<>>),
         <<Instr("OP_CLASS", 0), Instr("OP_DEFINE_GLOBAL", 0), Instr("OP_GET_GLOBAL", 1),
           Instr("OP_CLOSURE", 3), Instr("OP_METHOD", 2), Instr("OP_POP", 0),
           Instr("OP_GET_GLOBAL", 4), Instr("OP_CALL", 0)>>
         \o (IF invoked THEN <<Instr2("OP_INVOKE", 5, 0)>> ELSE <<>>)
         \o <<Instr("OP_POP", 0)>>)

\*   class R { m() { this.m(); } }  R().m();
TextInvokeSelf ==
  Body(STR_m, "TYPE_METHOD", 0, <<>>, <<StrConst(STR_m)>>,
       <<Instr("OP_GET_LOCAL", 0), Instr2("OP_INVOKE", 0, 0), Instr("OP_POP", 0)>>)

\*   class I { init() { I(); } }  I();
TextInitSelf ==
  Body(STR_init, "TYPE_INITIALIZER", 0, <<>>, <<StrConst(STR_I)>>,
       <<Instr("OP_GET_GLOBAL", 0), Instr("OP_CALL", 0), Instr("OP_POP", 0)>>)

\*   class M { m() { (this.m)(); } }  M().m();
TextBoundSelf ==
  Body(STR_m, "TYPE_METHOD", 0, <<>>, <<StrConst(STR_m)>>,
       <<Instr("OP_GET_LOCAL", 0), Instr("OP_GET_PROPERTY", 0), Instr("OP_CALL", 0),
         Instr("OP_POP", 0)>>)

\*   class S { m() { this.m(); } }
\*   class T < S { m() { super.m(); } }
\*   T().m();
TextSuperSelf ==
  Body(STR_m, "TYPE_METHOD", 0, <<LocalUpvalue(1)>>, <<StrConst(STR_m)>>,
       <<Instr("OP_GET_LOCAL", 0), Instr("OP_GET_UPVALUE", 0),
         Instr2("OP_SUPER_INVOKE", 0, 0), Instr("OP_POP", 0)>>)

TextSupers ==
  Script(<<StrConst(STR_S), StrConst(STR_S), StrConst(STR_m), FunConst(2),
           StrConst(STR_T), StrConst(STR_S), StrConst(STR_T), StrConst(STR_T),
           StrConst(STR_m), FunConst(3), StrConst(STR_T), StrConst(STR_m)>>,
         <<Instr("OP_CLASS", 0), Instr("OP_DEFINE_GLOBAL", 0), Instr("OP_GET_GLOBAL", 1),
           Instr("OP_CLOSURE", 3), Instr("OP_METHOD", 2), Instr("OP_POP", 0),
           Instr("OP_CLASS", 4), Instr("OP_DEFINE_GLOBAL", 4), Instr("OP_GET_GLOBAL", 5),
           Instr("OP_GET_GLOBAL", 6), Instr("OP_INHERIT", 0), Instr("OP_GET_GLOBAL", 7),
           Instr("OP_CLOSURE", 9), Instr("OP_METHOD", 8), Instr("OP_POP", 0),
           Instr("OP_CLOSE_UPVALUE", 0),
           Instr("OP_GET_GLOBAL", 10), Instr("OP_CALL", 0), Instr2("OP_INVOKE", 11, 0),
           Instr("OP_POP", 0)>>)

\*   var N = 1;  class C < N {}
TextNoSuperclass ==
  Script(<<StrConst(STR_N), NumConst(1), StrConst(STR_C), StrConst(STR_N),
           StrConst(STR_C), StrConst(STR_C)>>,
         <<Instr("OP_CONSTANT", 1), Instr("OP_DEFINE_GLOBAL", 0),
           Instr("OP_CLASS", 2), Instr("OP_DEFINE_GLOBAL", 2), Instr("OP_GET_GLOBAL", 3),
           Instr("OP_GET_GLOBAL", 4), Instr("OP_INHERIT", 0), Instr("OP_GET_GLOBAL", 5),
           Instr("OP_POP", 0), Instr("OP_POP", 0)>>)

STR_K == <<75>>
STR_n == <<110>>
STR_z == <<122>>

\*   fun f() { return 2; }
TextReturnTwo ==
  Body(STR_f, "TYPE_FUNCTION", 0, <<>>, <<NumConst(2)>>,
       <<Instr("OP_CONSTANT", 0), Instr("OP_RETURN", 0)>>)

\* The last statement of TextInvokes: a call of a field that is a number, of a
\* property that is not defined, of a field with one argument too many, of a
\* property of a number, and of a method with one argument too many.
LastInvoke ==
  << [consts |-> <<StrConst(STR_k), StrConst(STR_n)>>,
      code |-> <<Instr("OP_GET_GLOBAL", 18), Instr2("OP_INVOKE", 19, 0)>>],
     [consts |-> <<StrConst(STR_k), StrConst(STR_z)>>,
      code |-> <<Instr("OP_GET_GLOBAL", 18), Instr2("OP_INVOKE", 19, 0)>>],
     [consts |-> <<StrConst(STR_k), StrConst(STR_m), NumConst(1)>>,
      code |-> <<Instr("OP_GET_GLOBAL", 18), Instr("OP_CONSTANT", 20),
                 Instr2("OP_INVOKE", 19, 1)>>],
     [consts |-> <<StrConst(STR_k), StrConst(STR_n), StrConst(STR_m)>>,
      code |-> <<Instr("OP_GET_GLOBAL", 18), Instr("OP_GET_PROPERTY", 19),
                 Instr2("OP_INVOKE", 20, 0)>>],
     [consts |-> <<StrConst(STR_K), StrConst(STR_m), NumConst(1)>>,
      code |-> <<Instr("OP_GET_GLOBAL", 18), Instr("OP_CALL", 0),
                 Instr("OP_CONSTANT", 20), Instr2("OP_INVOKE", 19, 1)>>] >>

\*   class K { m() { return 1; } }  fun f() { return 2; }  var k = K();
\*   k.m();  k.m = f;  k.m();  k.n = 3;
\* and then one of:  k.n();  k.z();  k.m(1);  k.n.m();  K().m(1);
TextInvokes(variant) ==
  Script(<<StrConst(STR_K), StrConst(STR_K), StrConst(STR_m), FunConst(2),
           StrConst(STR_f), FunConst(3), StrConst(STR_k), StrConst(STR_K),
           StrConst(STR_k), StrConst(STR_m), StrConst(STR_k), StrConst(STR_m),
           StrConst(STR_f), StrConst(STR_k), StrConst(STR_m), StrConst(STR_k),
           StrConst(STR_n), NumConst(3)>> \o LastInvoke[variant].consts,
         <<Instr("OP_CLASS", 0), Instr("OP_DEFINE_GLOBAL", 0), Instr("OP_GET_GLOBAL", 1),
           Instr("OP_CLOSURE", 3), Instr("OP_METHOD", 2), Instr("OP_POP", 0),
           Instr("OP_CLOSURE", 5), Instr("OP_DEFINE_GLOBAL", 4),
           Instr("OP_GET_GLOBAL", 7), Instr("OP_CALL", 0), Instr("OP_DEFINE_GLOBAL", 6),
           Instr("OP_GET_GLOBAL", 8), Instr2("OP_INVOKE", 9, 0), Instr("OP_POP", 0),
           Instr("OP_GET_GLOBAL", 10), Instr("OP_GET_GLOBAL", 12),
           Instr("OP_SET_PROPERTY", 11), Instr("OP_POP", 0),
           Instr("OP_GET_GLOBAL", 13), Instr2("OP_INVOKE", 14, 0), Instr("OP_POP", 0),
           Instr("OP_GET_GLOBAL", 15), Instr("OP_CONSTANT", 17),
           Instr("OP_SET_PROPERTY", 16), Instr("OP_POP", 0)>>
         \o LastInvoke[variant].code \o <<Instr("OP_POP", 0)>>)

\* The source texts with classes, jumps and arithmetic.
ClassPrograms ==
  << [functions |-> <<TextClasses, TextReturnOne, TextInit, TextGetSuper,
                      TextSuperInvoke>>],
     [functions |-> <<TextArithmetic, TextDecrement>>],
     [functions |-> <<TextCalls, TextCallSelf>>],
     [functions |-> <<TextOneClass(STR_R, STR_m, TRUE), TextInvokeSelf>>],
     [functions |-> <<TextOneClass(STR_I, STR_init, FALSE), TextInitSelf>>],
     [functions |-> <<TextOneClass(STR_M, STR_m, TRUE), TextBoundSelf>>],
     [functions |-> <<TextSupers, TextInvokeSelf, TextSuperSelf>>],
     [functions |-> <<TextNoSuperclass>>] >>
  \o [variant \in DOMAIN LastInvoke |->
        [functions |-> <<TextInvokes(variant), TextReturnOne, TextReturnTwo>>]]

\* How many operands of pending additions a call of TextDeep is nested in.
MaxPending == 5

\*   fun f() { var l1; ... var l255;  1 + (1 + ... (1 + f()));  }
\* with pending additions around the call, or with 1 in place of a call that
\* does not recur.
TextDeep(pending, recursive) ==
  Body(STR_f, "TYPE_FUNCTION", 0, <<>>,
       [i \in 1..pending |-> NumConst(1)]
         \o (IF recursive THEN <<StrConst(STR_f)>> ELSE <<NumConst(1)>>),
       [i \in 1..UINT8_MAX |-> Instr("OP_NIL", 0)]
         \o [i \in 1..pending |-> Instr("OP_CONSTANT", i - 1)]
         \o (IF recursive THEN <<Instr("OP_GET_GLOBAL", pending), Instr("OP_CALL", 0)>>
             ELSE <<Instr("OP_CONSTANT", pending)>>)
         \o [i \in 1..pending |-> Instr("OP_ADD", 0)]
         \o <<Instr("OP_POP", 0)>>)

\* f();  after the declaration of f, for each TextDeep.
DeepPrograms ==
  << [functions |-> <<TextCalls, TextDeep(0, TRUE)>>],
     [functions |-> <<TextCalls, TextDeep(MaxPending, TRUE)>>],
     [functions |-> <<TextCalls, TextDeep(MaxPending, FALSE)>>] >>

\* The source texts interpret is called with.
Programs == ClosurePrograms \o ClassPrograms

ClassDomain == (Len(ClosurePrograms) + 1)..Len(Programs)

\* The source texts with classes, and the texts given as tokens, are run in a
\* fresh VM, where vm.nextGC is 1 MB, and allocate a few kilobytes:
\* bytesAllocated stays under vm.nextGC.
BelowNextGC == prog \in ClassDomain \/ source # <<>>

\* Whether a growing allocation runs a collection: always in a stress build,
\* otherwise when the bytes allocated so far pass vm.nextGC.
Collects == IF stress THEN {TRUE} ELSE IF BelowNextGC THEN {FALSE} ELSE BOOLEAN

\* The same for n allocations in a row.
CollectsAt(n) == [1..n -> Collects]

NoTable == ops = 0 /\ tmodel = <<>> /\ tret = NoTableOp

NoSource == source = <<>> /\ current = <<>> /\ outcome = <<>>

\* The specifications that leave the byte counts alone.
NoCounts == bytesAllocated = 0 /\ nextGC = 0 /\ collector = <<>>

\* ------------------------------------------------- SpecTable: the hash table
\* The keys: interned strings.  "a", "q", "i" and "y" share slot 4 of an 8-slot
\* table, "b" shares slot 5 with "clock".
KeyChars == << <<97>>, <<113>>, <<105>>, <<121>>, <<98>> >>

RECURSIVE InternAll(_, _, _)
InternAll(s, list, i) ==
  IF i > Len(list) THEN s
  ELSE With(<<copyString(s, list[i], NoGC).s, i + 1>>,
            LAMBDA n : InternAll(n[1], list, n[2]))

TableKeys == {o \in 1..Len(heap) : heap[o].type = "string"}

TableValues == {NUMBER_VAL(1), NUMBER_VAL(2)}

\* tableSet of the first n keys of list, each with value, into table tref.
RECURSIVE Prefill(_, _, _, _, _)
Prefill(s, tref, list, n, value) ==
  IF n = 0 THEN s
  ELSE With(Prefill(s, tref, list, n - 1, value),
            LAMBDA s1 : tableSet(s1, tref, list[n], value, FALSE).s)

\* The keys the embedding program has put into tbl, and into src, before the
\* run: "init", "clock", "a", "q", "i" (addresses 1, 2, 4, 5, 6), or none.
PrefillKeys == <<1, 2, 4, 5, 6>>
SrcKeys == <<5, 2>>

ABSENT == [t |-> "absent", v |-> 0]

TableInit ==
  /\ \E n \in {0, Len(SrcKeys)}, m \in {0, Len(PrefillKeys)} :
       /\ \E s0 \in {InternAll(initVM, KeyChars, 1)} :
            \E s1 \in {Prefill(s0, VmTable("src"), SrcKeys, n, NUMBER_VAL(3))} :
              Holds(Prefill(s1, VmTable("tbl"), PrefillKeys, m, NUMBER_VAL(1)))
       /\ tmodel = [o \in 1..Len(heap) |->
                      IF \E i \in 1..m : PrefillKeys[i] = o THEN NUMBER_VAL(1)
                      ELSE ABSENT]
  /\ Idle /\ NoSource /\ NoCounts /\ stress = FALSE
  /\ ops = 0 /\ tret = NoTableOp

TableSet(key, value) ==
  /\ ops < MaxTableOps
  /\ \E c \in {tableSet(VM, VmTable("tbl"), key, value, FALSE)} :
       /\ Commit(c.s)
       /\ tret' = [op |-> "set", key |-> key, r |-> c.r, value |-> value,
                   present |-> tmodel[key] # ABSENT, expected |-> value]
  /\ tmodel' = [tmodel EXCEPT ![key] = value]
  /\ ops' = ops + 1
  /\ UNCHANGED <<runvars, compvars, memvars>>

TableDelete(key) ==
  /\ ops < MaxTableOps
  /\ \E c \in {tableDelete(VM, VmTable("tbl"), key)} :
       /\ Commit(c.s)
       /\ tret' = [op |-> "delete", key |-> key, r |-> c.r, value |-> NIL_VAL,
                   present |-> tmodel[key] # ABSENT, expected |-> NIL_VAL]
  /\ tmodel' = [tmodel EXCEPT ![key] = ABSENT]
  /\ ops' = ops + 1
  /\ UNCHANGED <<runvars, compvars, memvars>>

TableGet(key) ==
  /\ ops < MaxTableOps
  /\ \E c \in {tableGet(VM, VmTable("tbl"), key)} :
       tret' = [op |-> "get", key |-> key, r |-> c.found, value |-> c.value,
                present |-> tmodel[key] # ABSENT,
                expected |-> IF tmodel[key] # ABSENT THEN tmodel[key] ELSE NIL_VAL]
  /\ ops' = ops + 1
  /\ UNCHANGED <<vmvars, runvars, tmodel, compvars, memvars>>

TableAddAll ==
  /\ ops < MaxTableOps
  /\ \E s1 \in {tableAddAll(VM, VmTable("src"), VmTable("tbl"), FALSE)} : Commit(s1)
  /\ tmodel' = [o \in DOMAIN tmodel |->
                  IF \E e \in TableContents(src) : e[1] = o
                  THEN (CHOOSE e \in TableContents(src) : e[1] = o)[2]
                  ELSE tmodel[o]]
  /\ tret' = [NoTableOp EXCEPT !.op = "addAll"]
  /\ ops' = ops + 1
  /\ UNCHANGED <<runvars, compvars, memvars>>

TableNext ==
  \/ \E key \in TableKeys, value \in TableValues : TableSet(key, value)
  \/ \E key \in TableKeys : TableDelete(key)
  \/ \E key \in TableKeys : TableGet(key)
  \/ TableAddAll

SpecTable == TableInit /\ [][TableNext]_vars

\* ------------------------------------------------------- Spec: interpret
Init == Holds(initVM) /\ Idle /\ NoTable /\ NoSource /\ NoCounts /\ stress \in BOOLEAN

\* The step ends: the VM is s; interpret goes on in phase ph, unless freed
\* memory was read.
Finish(s, ph, res, saw) ==
  /\ Commit(s)
  /\ phase' = IF s.fault # "none" THEN "fault" ELSE ph
  /\ result' = IF s.fault # "none" THEN "none" ELSE res
  /\ last' = [saw EXCEPT !.height = stackTop, !.frameCount = Len(frames)]
  /\ UNCHANGED <<stress, prog, runs, tablevars, compvars, memvars>>

\* The function text the current compiler is compiling.
CurrentText == Programs[prog].functions[compilers[1].fn]

NextConst == CurrentText.consts[compilers[1].next]

Compiling == phase = "compile" /\ compilers[1].next <= Len(CurrentText.consts)

\* interpret(source) up to the initCompiler of compile.
Interpret(p) ==
  /\ phase = "idle" /\ runs < MaxRuns
  /\ \E gc \in Collects : \E s \in {VM} :
       \E s1 \in {initCompiler(s, 1, <<>>, <<gc, FALSE, FALSE, FALSE>>)} :
         /\ Commit(s1)
         /\ phase' = IF s1.fault # "none" THEN "fault" ELSE "compile"
  /\ prog' = p /\ runs' = runs + 1 /\ result' = "none"
  /\ last' = [Saw("interpret") EXCEPT !.before = TableContents(globals)]
  /\ parser' = NoError
  /\ UNCHANGED <<stress, tablevars, unitvars, memvars>>

\* The compiler meets a string literal or a global's name: makeConstant of
\* copyString.
CompileString ==
  /\ Compiling /\ NextConst.k = "str"
  /\ \E gc \in CollectsAt(4) : \E s \in {VM} :
       \E c \in {copyString(s, NextConst.chars, <<gc[1], gc[2], gc[3]>>)} :
         \E s1 \in {addConstant(c.s, s.compilers[1].function, OBJ_VAL(c.p), gc[4])} :
           Finish([s1 EXCEPT !.compilers[1].next = @ + 1], "compile", "none",
                  Saw("makeConstant"))

\* The compiler meets a function declaration: the initCompiler of function().
CompileFunction ==
  /\ Compiling /\ NextConst.k = "fun"
  /\ \E gc \in CollectsAt(4) : \E s \in {VM} :
       \E s1 \in {initCompiler(s, NextConst.fn,
                               Programs[prog].functions[NextConst.fn].name, gc)} :
         Finish(s1, "compile", "none", Saw("initCompiler"))

\* The parser calls error() or errorAtCurrent().
ErrorAt ==
  /\ Compiling /\ NextConst.k = "err"
  /\ parser' = errorAt(parser, NextConst.message)
  /\ Commit([VM EXCEPT !.compilers[1].next = @ + 1])
  /\ last' = Saw("errorAt")
  /\ UNCHANGED <<stress, phase, prog, result, runs, tablevars, unitvars, memvars>>

\* declaration() ends: in panic mode it calls synchronize.
Declaration ==
  /\ Compiling /\ NextConst.k = "decl"
  /\ parser' = IF parser.panicMode THEN synchronize(parser) ELSE parser
  /\ Commit([VM EXCEPT !.compilers[1].next = @ + 1])
  /\ last' = Saw("declaration")
  /\ UNCHANGED <<stress, phase, prog, result, runs, tablevars, unitvars, memvars>>

\* The end of a function body: endCompiler, then makeConstant of the function
\* in the enclosing chunk.
EndFunction ==
  /\ phase = "compile" /\ ~Compiling /\ Len(compilers) > 1
  /\ \E gc \in Collects : \E s \in {VM} :
       \E f \in {endCompiler(s, CurrentText)} :
         \E s1 \in {addConstant(f.s, f.s.compilers[1].function, OBJ_VAL(f.p), gc)} :
           Finish([s1 EXCEPT !.compilers[1].next = @ + 1], "compile", "none",
                  Saw("endCompiler"))

\* The end of the source text: compile returns, and interpret either returns
\* INTERPRET_COMPILE_ERROR or wraps the script in a closure and calls it.
EndCompile ==
  /\ phase = "compile" /\ ~Compiling /\ Len(compilers) = 1
  /\ \E gc \in CollectsAt(2) : \E s \in {VM} :
       \E f \in {endCompiler(s, CurrentText)} :
         \E function \in {compileResult(parser, f.p)} :
           IF function = NULL
           THEN Finish(f.s, "idle", "compile_error",
                       [Saw("compile") EXCEPT !.name = function])
           ELSE \E s1 \in {push(f.s, OBJ_VAL(function))} :
                  \E c \in {newClosure(s1, function, gc)} :
                    \E s2 \in {push(pop(c.s), OBJ_VAL(c.p))} :
                      Finish(call(s2, c.p, 0).s, "run", "none",
                             [Saw("compile") EXCEPT !.name = function])

\* writeChunk finds the code array full and grows it: a collection may run.
WriteChunk ==
  /\ phase = "compile"
  /\ \E s \in {VM} : Finish(reallocate(s, 0, 1, TRUE), "compile", "none", Saw("writeChunk"))

\* ------------------------------------------------------------- Spec: run
CurrentFrame(s) == s.frames[Len(s.frames)]

\* The instruction at frame->ip.
Fetch(s) == s.heap[s.heap[CurrentFrame(s).closure].function].code[CurrentFrame(s).ip]

Running(op) == phase = "run" /\ Fetch(VM).op = op

\* READ_BYTE, as far as ip is concerned.
READ_BYTE(s) == [s EXCEPT !.frames[Len(s.frames)].ip = @ + 1]

READ_CONSTANT(s, a) == s.heap[s.heap[CurrentFrame(s).closure].function].constants[a + 1]

OpConstant ==
  /\ Running("OP_CONSTANT")
  /\ \E s \in {READ_BYTE(VM)} :
       Finish(push(s, READ_CONSTANT(s, Fetch(VM).a)), "run", "none", Saw("OP_CONSTANT"))

OpNil ==
  /\ Running("OP_NIL")
  /\ \E s \in {READ_BYTE(VM)} : Finish(push(s, NIL_VAL), "run", "none", Saw("OP_NIL"))

OpPop ==
  /\ Running("OP_POP")
  /\ \E s \in {READ_BYTE(VM)} : Finish(pop(s), "run", "none", Saw("OP_POP"))

OpGetLocal ==
  /\ Running("OP_GET_LOCAL")
  /\ \E s \in {READ_BYTE(VM)} :
       Finish(push(s, s.stack[CurrentFrame(s).slots + Fetch(VM).a + 1]), "run", "none",
              Saw("OP_GET_LOCAL"))

\* The write of OP_SET_LOCAL to stack slot at, noted in the cell of the open
\* upvalue that captures the slot.
SetLocal(s, at, value) ==
  [s EXCEPT !.stack[at + 1] = value,
            !.heap = [o \in DOMAIN @ |->
                        IF (\E i \in DOMAIN UpvalueList(s.heap, s.openUpvalues) :
                              UpvalueList(s.heap, s.openUpvalues)[i] = o)
                           /\ @[o].location = at
                        THEN [@[o] EXCEPT !.cell = value] ELSE @[o]]]

OpSetLocal ==
  /\ Running("OP_SET_LOCAL")
  /\ \E s \in {READ_BYTE(VM)} :
       Finish(SetLocal(s, CurrentFrame(s).slots + Fetch(VM).a, peek(s, 0)), "run", "none",
              Saw("OP_SET_LOCAL"))

OpGetGlobal ==
  /\ Running("OP_GET_GLOBAL")
  /\ \E s \in {READ_BYTE(VM)} :
       \E name \in {AS_OBJ(READ_CONSTANT(s, Fetch(VM).a))} :
         \E got \in {tableGet(s, VmTable("globals"), name)} :
           IF ~got.found
           THEN Finish(runtimeError(s), "idle", "runtime_error",
                       [Saw("OP_GET_GLOBAL") EXCEPT !.name = name])
           ELSE Finish(push(s, got.value), "run", "none",
                       [Saw("OP_GET_GLOBAL") EXCEPT !.name = name, !.defined = TRUE,
                                                    !.value = got.value])

OpDefineGlobal ==
  /\ Running("OP_DEFINE_GLOBAL")
  /\ \E gc \in Collects : \E s \in {READ_BYTE(VM)} :
       \E name \in {AS_OBJ(READ_CONSTANT(s, Fetch(VM).a))} :
         \E set \in {tableSet(s, VmTable("globals"), name, peek(s, 0), gc)} :
           Finish(pop(set.s), "run", "none", Saw("OP_DEFINE_GLOBAL"))

OpSetGlobal ==
  /\ Running("OP_SET_GLOBAL")
  /\ \E gc \in Collects : \E s \in {READ_BYTE(VM)} :
       \E name \in {AS_OBJ(READ_CONSTANT(s, Fetch(VM).a))} :
         \E set \in {tableSet(s, VmTable("globals"), name, peek(s, 0), gc)} :
           \E saw \in {[Saw("OP_SET_GLOBAL") EXCEPT
                          !.name = name, !.value = peek(s, 0), !.defined = ~set.r,
                          !.before = TableContents(s.globals)]} :
             IF set.r
             THEN Finish(undefinedVariable(set.s, name), "idle", "runtime_error", saw)
             ELSE Finish(set.s, "run", "none", saw)

OpGetUpvalue ==
  /\ Running("OP_GET_UPVALUE")
  /\ \E s \in {READ_BYTE(VM)} :
       \E upvalue \in {s.heap[s.heap[CurrentFrame(s).closure].upvalues[Fetch(VM).a + 1]]} :
         Finish(push(s, UpvalueCell(s, upvalue)), "run", "none",
                [Saw("OP_GET_UPVALUE") EXCEPT !.value = UpvalueCell(s, upvalue),
                                              !.expected = upvalue.cell])

\* *upvalue->location = value
SetUpvalue(s, u, value) ==
  IF s.heap[u].location = CLOSED
  THEN [s EXCEPT !.heap[u].closed = value, !.heap[u].cell = value]
  ELSE [s EXCEPT !.stack[s.heap[u].location + 1] = value, !.heap[u].cell = value]

OpSetUpvalue ==
  /\ Running("OP_SET_UPVALUE")
  /\ \E s \in {READ_BYTE(VM)} :
       Finish(SetUpvalue(s, s.heap[CurrentFrame(s).closure].upvalues[Fetch(VM).a + 1],
                         peek(s, 0)),
              "run", "none", Saw("OP_SET_UPVALUE"))

IS_STRING(s, value) == IS_OBJ(value) /\ s.heap[AS_OBJ(value)].type = "string"

IS_NUMBER(value) == value.t = "num"

\* An operand of OP_ADD that points into freed memory.
Dangling(s, value) == IS_OBJ(value) /\ ~IsLive(s.heap, AS_OBJ(value))

OpAdd ==
  /\ Running("OP_ADD")
  /\ \E gc \in CollectsAt(3) : \E s \in {READ_BYTE(VM)} :
       IF Dangling(s, peek(s, 0)) \/ Dangling(s, peek(s, 1))
       THEN Finish([s EXCEPT !.fault = "deref"], "run", "none", Saw("OP_ADD"))
       ELSE IF IS_STRING(s, peek(s, 0)) /\ IS_STRING(s, peek(s, 1))
       THEN Finish(concatenate(s, gc), "run", "none", Saw("OP_ADD"))
       ELSE IF IS_NUMBER(peek(s, 0)) /\ IS_NUMBER(peek(s, 1))
       THEN Finish(push(pop(pop(s)), NUMBER_VAL(peek(s, 1).v + peek(s, 0).v)),
                   "run", "none", Saw("OP_ADD"))
       ELSE Finish(runtimeError(s), "idle", "runtime_error", Saw("OP_ADD"))

\* What a call instruction leaves in last: the callee, whether it is a closure
\* (the method of a bound method, a class's initializer) called with as many
\* arguments as it has parameters, and the message of the failed call.
Callee(s, value) ==
  IF ~IS_OBJ(value) \/ ~IsLive(s.heap, AS_OBJ(value)) THEN NULL
  ELSE With(s.heap[AS_OBJ(value)], LAMBDA object :
    CASE object.type = "closure" -> AS_OBJ(value)
      [] object.type = "boundMethod" -> object.method
      [] object.type = "class" ->
           With(tableGet(s, ObjTable(AS_OBJ(value), "methods"), s.initString),
                LAMBDA initializer :
                  IF initializer.found THEN AS_OBJ(initializer.value) ELSE NULL)
      [] OTHER -> NULL)

\* The closure is one call() runs past its check of the argument count.
Enters(s, closure, argCount) ==
  closure # NULL /\ s.heap[s.heap[closure].function].arity = argCount

\* value in last: the number of objects allocated before the instruction.
SawCall(op, s, value, argCount, c) ==
  [Saw(op) EXCEPT
     !.name = IF IS_OBJ(value) THEN AS_OBJ(value) ELSE NULL,
     !.defined = Enters(s, Callee(s, value), argCount),
     !.value = NUMBER_VAL(Len(s.heap)),
     !.chars = <<argCount>>,
     !.message = c.message]

\* The receiver a call of this value runs its method on: a bound method's.
ReceiverOf(s, value) ==
  IF IS_OBJ(value) /\ IsLive(s.heap, AS_OBJ(value))
     /\ s.heap[AS_OBJ(value)].type = "boundMethod"
  THEN s.heap[AS_OBJ(value)].receiver ELSE NIL_VAL

\* The same for invoke(): the receiver of the bound method in a field, or the
\* instance the method is looked up on.
InvokeReceiver(s, name, argCount) ==
  IF ~IS_INSTANCE(s, peek(s, argCount)) THEN NIL_VAL
  ELSE With(tableGet(s, ObjTable(AS_OBJ(peek(s, argCount)), "fields"), name), LAMBDA field :
         IF field.found THEN ReceiverOf(s, field.value) ELSE peek(s, argCount))

\* The frame the call c has pushed on the frames of s gets its receiver.
EnterMethod(s, c, receiver) ==
  IF c.r /\ Len(c.s.frames) = Len(s.frames) + 1 /\ ~IS_NIL(receiver)
  THEN [c EXCEPT !.s.frames[Len(c.s.frames)].receiver = receiver] ELSE c

\* The closure invoke() ends up calling: a field's callee, or the method.
InvokeTarget(s, name, argCount) ==
  IF ~IS_INSTANCE(s, peek(s, argCount)) THEN NULL
  ELSE With(AS_OBJ(peek(s, argCount)), LAMBDA instance :
    With(tableGet(s, ObjTable(instance, "fields"), name), LAMBDA field :
      IF field.found THEN Callee(s, field.value)
      ELSE With(tableGet(s, ObjTable(s.heap[instance].klass, "methods"), name),
                LAMBDA method : IF method.found THEN AS_OBJ(method.value) ELSE NULL)))

SuperTarget(s, superclass, name) ==
  With(tableGet(s, ObjTable(superclass, "methods"), name),
       LAMBDA method : IF method.found THEN AS_OBJ(method.value) ELSE NULL)

\* The call instruction ends: with a new frame or a value in place of the
\* callee, or with a runtime error.
FinishCall(c, saw) ==
  IF c.r THEN Finish(c.s, "run", "none", saw)
  ELSE Finish(c.s, "idle", "runtime_error", saw)

OpCall ==
  /\ Running("OP_CALL")
  /\ \E gc \in Collects : \E s \in {READ_BYTE(VM)} : \E argCount \in {Fetch(VM).a} :
       \E callee \in {peek(s, argCount)} :
         \E c0 \in {callValue(s, callee, argCount, gc)} :
           \E c \in {EnterMethod(s, c0, ReceiverOf(s, callee))} :
             FinishCall(c, SawCall("OP_CALL", s, callee, argCount, c))

\* gc[1] and gc[2] are the collections of newClosure, gc[3] the one at the
\* newUpvalue of a capture (the functions of Programs capture one variable).
OpClosure ==
  /\ Running("OP_CLOSURE")
  /\ \E gc \in CollectsAt(3) : \E s \in {READ_BYTE(VM)} :
       \E c \in {newClosure(s, AS_OBJ(READ_CONSTANT(s, Fetch(VM).a)), <<gc[1], gc[2]>>)} :
         \E s1 \in {push(c.s, OBJ_VAL(c.p))} :
           Finish(fillUpvalues(s1, c.p, CurrentFrame(s1), 1, gc[3]), "run", "none",
                  Saw("OP_CLOSURE"))

OpCloseUpvalue ==
  /\ Running("OP_CLOSE_UPVALUE")
  /\ \E s \in {READ_BYTE(VM)} :
       \E s1 \in {closeUpvalues(s, s.stackTop - 1)} :
         Finish(pop(s1), "run", "none", Saw("OP_CLOSE_UPVALUE"))

OpReturn ==
  /\ Running("OP_RETURN")
  /\ \E s \in {READ_BYTE(VM)} :
       \E value \in {peek(s, 0)} : \E frame \in {CurrentFrame(s)} :
         \E s1 \in {closeUpvalues(pop(s), frame.slots)} :
           \E s2 \in {[s1 EXCEPT !.frames = SubSeq(@, 1, Len(@) - 1)]} :
             \E saw \in {[Saw("OP_RETURN") EXCEPT
                            !.name = frame.instance, !.value = value,
                            !.chars = <<frame.slots>>,
                            !.before = {s.frames[i] : i \in {Len(s.frames) - 1} \ {0}}]} :
               IF Len(s2.frames) = 0
               THEN Finish(pop(s2), "idle", "ok", saw)
               ELSE Finish(push([s2 EXCEPT !.stackTop = frame.slots], value), "run",
                           "none", saw)

\* ------------------------------------------- the remaining instructions
OpTrue ==
  /\ Running("OP_TRUE")
  /\ \E s \in {READ_BYTE(VM)} : Finish(push(s, BOOL_VAL(TRUE)), "run", "none", Saw("OP_TRUE"))

OpFalse ==
  /\ Running("OP_FALSE")
  /\ \E s \in {READ_BYTE(VM)} :
       Finish(push(s, BOOL_VAL(FALSE)), "run", "none", Saw("OP_FALSE"))

\* An instruction that ends, or fails with a runtime error: c is [s, r, message].
FinishOp(c, saw) ==
  IF c.r THEN Finish(c.s, "run", "none", [saw EXCEPT !.defined = TRUE])
  ELSE Finish(c.s, "idle", "runtime_error", [saw EXCEPT !.message = c.message])

OpGetProperty ==
  /\ Running("OP_GET_PROPERTY")
  /\ \E gc \in Collects : \E s0 \in {VM} :
       IF ~IS_INSTANCE(s0, peek(s0, 0))
       THEN FinishOp(Failed(s0, "Only instances have properties."), Saw("OP_GET_PROPERTY"))
       ELSE \E s \in {READ_BYTE(s0)} : \E instance \in {AS_OBJ(peek(s0, 0))} :
              \E name \in {AS_OBJ(READ_CONSTANT(s, Fetch(VM).a))} :
                \E field \in {tableGet(s, ObjTable(instance, "fields"), name)} :
                  \E saw \in {[Saw("OP_GET_PROPERTY") EXCEPT !.name = name]} :
                    FinishOp(getProperty(s, name, gc),
                             IF field.found THEN [saw EXCEPT !.value = field.value]
                             ELSE saw)

OpSetProperty ==
  /\ Running("OP_SET_PROPERTY")
  /\ \E gc \in Collects : \E s0 \in {VM} :
       IF ~IS_INSTANCE(s0, peek(s0, 1))
       THEN FinishOp(Failed(s0, "Only instances have fields."), Saw("OP_SET_PROPERTY"))
       ELSE \E s \in {READ_BYTE(s0)} : \E instance \in {AS_OBJ(peek(s0, 1))} :
              \E name \in {AS_OBJ(READ_CONSTANT(s, Fetch(VM).a))} :
                \E set \in {tableSet(s, ObjTable(instance, "fields"), name, peek(s, 0), gc)} :
                  \E value \in {peek(set.s, 0)} :
                    FinishOp(Called(push(pop(pop(set.s)), value)),
                             [Saw("OP_SET_PROPERTY") EXCEPT !.name = name, !.value = value])

\* OP_GET_SUPER that reads the superclass and leaves it on the stack.
OpGetSuperPeek ==
  /\ Running("OP_GET_SUPER")
  /\ \E gc \in Collects : \E s \in {READ_BYTE(VM)} :
       \E name \in {AS_OBJ(READ_CONSTANT(s, Fetch(VM).a))} :
         \E superclass \in {AS_OBJ(peek(s, 0))} :
           FinishOp(bindMethod(s, superclass, name, gc),
                    [Saw("OP_GET_SUPER") EXCEPT !.name = name])

OpGetSuper ==
  /\ Running("OP_GET_SUPER")
  /\ \E gc \in Collects : \E s \in {READ_BYTE(VM)} :
       \E name \in {AS_OBJ(READ_CONSTANT(s, Fetch(VM).a))} :
         \E superclass \in {AS_OBJ(peek(s, 0))} :
           FinishOp(bindMethod(pop(s), superclass, name, gc),
                    [Saw("OP_GET_SUPER") EXCEPT !.name = name,
                                                !.value = peek(s, 1)])

\* valuesEqual: values of different types differ; objects are equal when they
\* are the same object.
valuesEqual(a, b) ==
  /\ a.t = b.t
  /\ CASE IS_BOOL(a) -> AS_BOOL(a) = AS_BOOL(b)
       [] IS_NUMBER(a) -> a.v = b.v
       [] IS_OBJ(a) -> AS_OBJ(a) = AS_OBJ(b)
       [] OTHER -> TRUE

OpEqual ==
  /\ Running("OP_EQUAL")
  /\ \E s \in {READ_BYTE(VM)} :
       Finish(push(pop(pop(s)), BOOL_VAL(valuesEqual(peek(s, 1), peek(s, 0)))),
              "run", "none", Saw("OP_EQUAL"))

\* a op b for the operators BINARY_OP is used with; the quotient of two
\* doubles is a value of the model when it is a whole number.
Divides(a, b) == b # 0 /\ \E q \in -16..16 : q * b = a

Quotient(a, b) == CHOOSE q \in -16..16 : q * b = a

Apply(op, a, b) ==
  CASE op = ">" -> BOOL_VAL(a > b)
    [] op = "<" -> BOOL_VAL(a < b)
    [] op = "-" -> NUMBER_VAL(a - b)
    [] op = "*" -> NUMBER_VAL(a * b)
    [] op = "/" -> NUMBER_VAL(Quotient(a, b))

\* [s, r, message]: the BINARY_OP macro
BINARY_OP(s, op) ==
  IF ~IS_NUMBER(peek(s, 0)) \/ ~IS_NUMBER(peek(s, 1))
  THEN Failed(s, "Operands must be numbers.")
  ELSE Called(push(pop(pop(s)), Apply(op, peek(s, 1).v, peek(s, 0).v)))

OpGreater ==
  /\ Running("OP_GREATER")
  /\ \E s \in {READ_BYTE(VM)} : FinishOp(BINARY_OP(s, ">"), Saw("OP_GREATER"))

OpLess ==
  /\ Running("OP_LESS")
  /\ \E s \in {READ_BYTE(VM)} : FinishOp(BINARY_OP(s, "<"), Saw("OP_LESS"))

OpSubtract ==
  /\ Running("OP_SUBTRACT")
  /\ \E s \in {READ_BYTE(VM)} : FinishOp(BINARY_OP(s, "-"), Saw("OP_SUBTRACT"))

OpMultiply ==
  /\ Running("OP_MULTIPLY")
  /\ \E s \in {READ_BYTE(VM)} : FinishOp(BINARY_OP(s, "*"), Saw("OP_MULTIPLY"))

\* The quotients the model has are the whole ones.
OpDivide ==
  /\ Running("OP_DIVIDE")
  /\ \E s \in {READ_BYTE(VM)} :
       /\ IS_NUMBER(peek(s, 0)) /\ IS_NUMBER(peek(s, 1))
            => Divides(peek(s, 1).v, peek(s, 0).v)
       /\ FinishOp(BINARY_OP(s, "/"), Saw("OP_DIVIDE"))

OpNot ==
  /\ Running("OP_NOT")
  /\ \E s \in {READ_BYTE(VM)} :
       Finish(push(pop(s), BOOL_VAL(isFalsey(peek(s, 0)))), "run", "none", Saw("OP_NOT"))

OpNegate ==
  /\ Running("OP_NEGATE")
  /\ \E s \in {READ_BYTE(VM)} :
       IF ~IS_NUMBER(peek(s, 0))
       THEN FinishOp(Failed(s, "Operand must be a number."), Saw("OP_NEGATE"))
       ELSE FinishOp(Called(push(pop(s), NUMBER_VAL(0 - peek(s, 0).v))), Saw("OP_NEGATE"))

\* printValue(pop()): the value printed is kept in last.
OpPrint ==
  /\ Running("OP_PRINT")
  /\ \E s \in {READ_BYTE(VM)} :
       Finish(pop(s), "run", "none", [Saw("OP_PRINT") EXCEPT !.value = peek(s, 0)])

\* The operand of a jump counts the instructions it skips.
Jump(s, offset) == [s EXCEPT !.frames[Len(s.frames)].ip = @ + offset]

OpJump ==
  /\ Running("OP_JUMP")
  /\ \E s \in {READ_BYTE(VM)} :
       Finish(Jump(s, Fetch(VM).a), "run", "none", Saw("OP_JUMP"))

OpJumpIfFalse ==
  /\ Running("OP_JUMP_IF_FALSE")
  /\ \E s \in {READ_BYTE(VM)} :
       Finish(IF isFalsey(peek(s, 0)) THEN Jump(s, Fetch(VM).a) ELSE s, "run", "none",
              Saw("OP_JUMP_IF_FALSE"))

OpLoop ==
  /\ Running("OP_LOOP")
  /\ \E s \in {READ_BYTE(VM)} :
       Finish(Jump(s, 0 - Fetch(VM).a), "run", "none", Saw("OP_LOOP"))

OpInvoke ==
  /\ Running("OP_INVOKE")
  /\ \E gc \in Collects : \E s \in {READ_BYTE(VM)} : \E argCount \in {Fetch(VM).b} :
       \E method \in {AS_OBJ(READ_CONSTANT(s, Fetch(VM).a))} :
         \E c0 \in {invoke(s, method, argCount, gc)} :
           \E c \in {EnterMethod(s, c0, InvokeReceiver(s, method, argCount))} :
             FinishCall(c, [Saw("OP_INVOKE") EXCEPT
                              !.name = method, !.chars = <<argCount>>,
                              !.defined = Enters(s, InvokeTarget(s, method, argCount),
                                                 argCount),
                              !.message = c.message])

OpSuperInvoke ==
  /\ Running("OP_SUPER_INVOKE")
  /\ \E s \in {READ_BYTE(VM)} : \E argCount \in {Fetch(VM).b} :
       \E method \in {AS_OBJ(READ_CONSTANT(s, Fetch(VM).a))} :
         \E superclass \in {AS_OBJ(peek(s, 0))} :
           \E c0 \in {invokeFromClass(pop(s), superclass, method, argCount)} :
            \E c \in {EnterMethod(s, c0, peek(s, argCount + 1))} :
             FinishCall(c, [Saw("OP_SUPER_INVOKE") EXCEPT
                              !.name = method, !.chars = <<argCount>>,
                              !.defined = Enters(s, SuperTarget(s, superclass, method),
                                                 argCount),
                              !.message = c.message])

OpClass ==
  /\ Running("OP_CLASS")
  /\ \E gc \in Collects : \E s \in {READ_BYTE(VM)} :
       \E klass \in {newClass(s, AS_OBJ(READ_CONSTANT(s, Fetch(VM).a)), gc)} :
         Finish(push(klass.s, OBJ_VAL(klass.p)), "run", "none",
                [Saw("OP_CLASS") EXCEPT !.name = klass.p])

OpInherit ==
  /\ Running("OP_INHERIT")
  /\ \E gc \in Collects : \E s \in {READ_BYTE(VM)} : \E superclass \in {peek(s, 1)} :
       \E subclass \in {AS_OBJ(peek(s, 0))} :
         \E saw \in {[Saw("OP_INHERIT") EXCEPT
                        !.name = subclass, !.value = superclass,
                        !.before = TableContents(s.heap[subclass].methods)]} :
           IF ~IS_CLASS(s, superclass)
           THEN FinishOp(Failed(s, "Superclass must be a class."), saw)
           ELSE \E s1 \in {tableAddAll(s, ObjTable(AS_OBJ(superclass), "methods"),
                                       ObjTable(subclass, "methods"), gc)} :
                  \E methods \in {TableContents(s.heap[AS_OBJ(superclass)].methods)} :
                    FinishOp(Called(pop([s1 EXCEPT !.heap[subclass].inherited = methods])),
                             saw)

OpMethod ==
  /\ Running("OP_METHOD")
  /\ \E gc \in Collects : \E s \in {READ_BYTE(VM)} :
       \E name \in {AS_OBJ(READ_CONSTANT(s, Fetch(VM).a))} : \E klass \in {AS_OBJ(peek(s, 1))} :
         \E s1 \in {defineMethod(s, name, gc)} :
           \E declared \in {{d \in s.heap[klass].declared : d[1] # name}
                              \union {<<name, peek(s, 0)>>}} :
             Finish([s1 EXCEPT !.heap[klass].declared = declared], "run", "none",
                    [Saw("OP_METHOD") EXCEPT !.name = klass])

Next ==
  \/ \E p \in DOMAIN ClosurePrograms : Interpret(p)
  \/ CompileString \/ CompileFunction \/ EndFunction \/ EndCompile \/ WriteChunk
  \/ ErrorAt \/ Declaration
  \/ OpConstant \/ OpNil \/ OpPop \/ OpGetLocal \/ OpSetLocal
  \/ OpGetGlobal \/ OpDefineGlobal \/ OpSetGlobal
  \/ OpGetUpvalue \/ OpSetUpvalue
  \/ OpAdd \/ OpCall \/ OpClosure \/ OpCloseUpvalue \/ OpReturn

Spec == Init /\ [][Next]_vars

\* ------------------------------------ SpecClass: classes, jumps, deep calls
\* One interpret of one of ClassPrograms in a build without stress, on a stack
\* that holds the slots of FRAMES_MAX frames.
DeepStack == FRAMES_MAX + MaxStack

ClassInit ==
  /\ Holds([initVM EXCEPT !.stack = [i \in 1..DeepStack |-> NIL_VAL]])
  /\ Idle /\ NoTable /\ NoSource /\ NoCounts /\ stress = FALSE

InterpretOnce == runs = 0 /\ \E p \in ClassDomain : Interpret(p)

\* The compiler meets a number literal: emitConstant's makeConstant.
CompileNumber ==
  /\ Compiling /\ NextConst.k = "num"
  /\ \E gc \in Collects : \E s \in {VM} :
       \E s1 \in {addConstant(s, s.compilers[1].function, NUMBER_VAL(NextConst.chars[1]),
                              gc)} :
         Finish([s1 EXCEPT !.compilers[1].next = @ + 1], "compile", "none",
                Saw("makeConstant"))

ClassNext ==
  \/ InterpretOnce
  \/ CompileString \/ CompileNumber \/ CompileFunction \/ EndFunction \/ EndCompile
  \/ OpConstant \/ OpNil \/ OpTrue \/ OpFalse \/ OpPop \/ OpGetLocal \/ OpSetLocal
  \/ OpGetGlobal \/ OpDefineGlobal \/ OpSetGlobal
  \/ OpGetUpvalue \/ OpSetUpvalue \/ OpGetProperty \/ OpSetProperty \/ OpGetSuper
  \/ OpEqual \/ OpGreater \/ OpLess \/ OpAdd \/ OpSubtract \/ OpMultiply \/ OpDivide
  \/ OpNot \/ OpNegate \/ OpPrint \/ OpJump \/ OpJumpIfFalse \/ OpLoop
  \/ OpCall \/ OpInvoke \/ OpSuperInvoke \/ OpClosure \/ OpCloseUpvalue \/ OpReturn
  \/ OpClass \/ OpInherit \/ OpMethod

SpecClass == ClassInit /\ [][ClassNext]_vars

\* ------------------------------------- SpecDeep: frames of UINT8_COUNT slots
\* One interpret of one of DeepPrograms, with the values on the stack left
\* out: stackTop is the number of values vm.stack holds, frames has the function
\* (its index in the program), ip and slots of each CallFrame, and the heap is
\* not written.
DeepFrame(fn, slots) == [fn |-> fn, ip |-> 1, slots |-> slots]

\* The chunk of a function of the program: the text's code and emitReturn's.
DeepCode(p, fn) ==
  DeepPrograms[p].functions[fn].code \o <<Instr("OP_NIL", 0), Instr("OP_RETURN", 0)>>

DeepFetch == DeepCode(prog, frames[Len(frames)].fn)[frames[Len(frames)].ip]

DeepRunning(opcodes) == phase = "run" /\ DeepFetch.op \in opcodes

\* push, as far as stackTop is concerned.
pushHeight(s) ==
  IF s.stackTop >= STACK_MAX THEN [s EXCEPT !.fault = "overflow"]
  ELSE [s EXCEPT !.stackTop = @ + 1]

\* call of the closure of function fn, whose arity is 0.
callHeight(s, fn, argCount) ==
  IF argCount # 0 THEN Failed(s, "Expected %d arguments but got %d.")
  ELSE IF Len(s.frames) = FRAMES_MAX THEN Failed(s, "Stack overflow.")
  ELSE Called([s EXCEPT !.frames = Append(@, DeepFrame(fn, s.stackTop - argCount - 1))])

DeepInit ==
  /\ Holds(initVM) /\ Idle /\ NoTable /\ NoSource /\ NoCounts /\ stress = FALSE

\* interpret: the function compile returned is pushed, popped, its closure
\* pushed and called.
InterpretDeep ==
  /\ phase = "idle" /\ runs = 0
  /\ \E p \in DOMAIN DeepPrograms : prog' = p
  /\ \E s \in {VM} : \E s1 \in {pushHeight(pop(pushHeight(s)))} :
       Commit(callHeight(s1, 1, 0).s)
  /\ phase' = "run" /\ runs' = runs + 1 /\ result' = "none"
  /\ last' = Saw("interpret")
  /\ UNCHANGED <<stress, tablevars, compvars, memvars>>

DeepStep(s, ph, res, saw) ==
  /\ Commit(s)
  /\ phase' = IF s.fault # "none" THEN "fault" ELSE ph
  /\ result' = IF s.fault # "none" THEN "none" ELSE res
  /\ last' = [saw EXCEPT !.height = stackTop, !.frameCount = Len(frames)]
  /\ UNCHANGED <<stress, prog, runs, tablevars, compvars, memvars>>

\* OP_NIL, OP_CONSTANT, OP_CLOSURE of a function without upvalues, and
\* OP_GET_GLOBAL of f, which the script has defined: one push.
DeepPush ==
  /\ DeepRunning({"OP_NIL", "OP_CONSTANT", "OP_CLOSURE", "OP_GET_GLOBAL"})
  /\ \E s \in {READ_BYTE(VM)} : DeepStep(pushHeight(s), "run", "none", Saw(DeepFetch.op))

\* OP_POP, and OP_DEFINE_GLOBAL: one pop.
DeepPop ==
  /\ DeepRunning({"OP_POP", "OP_DEFINE_GLOBAL"})
  /\ \E s \in {READ_BYTE(VM)} : DeepStep(pop(s), "run", "none", Saw(DeepFetch.op))

\* OP_ADD of two numbers.
DeepAdd ==
  /\ DeepRunning({"OP_ADD"})
  /\ \E s \in {READ_BYTE(VM)} : DeepStep(pushHeight(pop(pop(s))), "run", "none", Saw("OP_ADD"))

\* OP_CALL: the callee is the closure of f, function 2 of the program.
DeepCall ==
  /\ DeepRunning({"OP_CALL"})
  /\ \E s \in {READ_BYTE(VM)} : \E c \in {callHeight(s, 2, DeepFetch.a)} :
       IF c.r THEN DeepStep(c.s, "run", "none", [Saw("OP_CALL") EXCEPT !.defined = TRUE])
       ELSE DeepStep(c.s, "idle", "runtime_error",
                     [Saw("OP_CALL") EXCEPT !.defined = TRUE, !.message = c.message])

DeepReturn ==
  /\ DeepRunning({"OP_RETURN"})
  /\ \E s \in {READ_BYTE(VM)} : \E frame \in {s.frames[Len(s.frames)]} :
       \E s1 \in {[pop(s) EXCEPT !.frames = SubSeq(@, 1, Len(@) - 1)]} :
         IF Len(s1.frames) = 0 THEN DeepStep(pop(s1), "idle", "ok", Saw("OP_RETURN"))
         ELSE DeepStep(pushHeight([s1 EXCEPT !.stackTop = frame.slots]), "run", "none",
                       Saw("OP_RETURN"))

DeepNext ==
  \/ InterpretDeep
  \/ DeepPush \/ DeepPop \/ DeepAdd \/ DeepCall \/ DeepReturn

SpecDeep == DeepInit /\ [][DeepNext]_vars

\* --------------------------------------------- SpecIntern: string interning
\* An embedding program interns strings, keeps some of them on the stack,
\* concatenates them and allocates: copyString, takeString and collections in
\* any order.
InternChars == {<<97>>, <<113>>}

\* The string with these characters in the intern table, or NULL.
Interned(s, chars) == tableFindString(s, VmTable("strings"), chars, hashString(chars))

InternCopy(chars) ==
  /\ stackTop < CONCAT_OPERANDS
  /\ \E gc \in CollectsAt(3) : \E s \in {VM} : \E interned \in {Interned(s, chars)} :
       \E c \in {copyString(s, chars, gc)} :
         /\ Len(c.s.heap) <= MaxAlloc
         /\ Commit(push(c.s, OBJ_VAL(c.p)))
         /\ last' = [Saw("copyString") EXCEPT
                       !.name = c.p, !.chars = chars,
                       !.defined = interned # NULL,
                       !.expected = PtrVal(interned)]
  /\ UNCHANGED <<stress, phase, prog, result, runs, tablevars, compvars, memvars>>

\* concatenate: takeString of the characters of the two strings on top, both
\* of them strings of InternChars.  The string found is the one interned when
\* takeString looks, after the collection the character array may have run.
InternConcat ==
  /\ stackTop >= 2
  /\ heap[AS_OBJ(stack[stackTop - 1])].chars \in InternChars
  /\ heap[AS_OBJ(stack[stackTop])].chars \in InternChars
  /\ \E gc \in CollectsAt(3) : \E s \in {VM} :
       \E chars \in {s.heap[AS_OBJ(peek(s, 1))].chars \o s.heap[AS_OBJ(peek(s, 0))].chars} :
         \E s0 \in {reallocate(s, 0, Len(chars) + 1, gc[1])} :
           \E interned \in {Interned(s0, chars)} : \E s1 \in {concatenate(s, gc)} :
             /\ Len(s1.heap) <= MaxAlloc
             /\ Commit(s1)
             /\ last' = [Saw("takeString") EXCEPT
                           !.name = AS_OBJ(peek(s1, 0)), !.chars = chars,
                           !.defined = interned # NULL,
                           !.expected = PtrVal(interned)]
  /\ UNCHANGED <<stress, phase, prog, result, runs, tablevars, compvars, memvars>>

InternPop ==
  /\ stackTop > 0
  /\ Commit(pop(VM))
  /\ last' = Saw("pop")
  /\ UNCHANGED <<stress, phase, prog, result, runs, tablevars, compvars, memvars>>

\* Some other growing allocation of the program runs a collection.
InternCollect ==
  /\ \E s \in {VM} : Commit(reallocate(s, 0, 1, TRUE))
  /\ last' = Saw("collectGarbage")
  /\ UNCHANGED <<stress, phase, prog, result, runs, tablevars, compvars, memvars>>

InternNext ==
  \/ \E chars \in InternChars : InternCopy(chars)
  \/ InternConcat
  \/ InternPop
  \/ InternCollect

InternInit == Holds(initVM) /\ Idle /\ NoTable /\ NoSource /\ NoCounts /\ stress = FALSE

SpecIntern == InternInit /\ [][InternNext]_vars

\* ------------------------------------- SpecFree: allocations up to freeVM
\* The embedding program of SpecIntern, which ends with freeVM.
FreeStep == phase = "idle" /\ InternNext

FreeVM ==
  /\ phase = "idle"
  /\ \E s \in {VM} : Commit(freeVM(s))
  /\ phase' = "freed"
  /\ last' = Saw("freeVM")
  /\ UNCHANGED <<stress, prog, result, runs, tablevars, compvars, memvars>>

FreeNext == FreeStep \/ FreeVM

SpecFree == InternInit /\ [][FreeNext]_vars

\* ------------------------------------------- SpecCompile: the Pratt parser
\* The compiler applied to a token sequence.  c is the compiler at work: the
\* FunctionType of the function being compiled, the scanner's tokens and how far
\* it has scanned them, the Parser, and the chunk emitted so far.
PREC_NONE == 0
PREC_ASSIGNMENT == 1
PREC_OR == 2
PREC_AND == 3
PREC_EQUALITY == 4
PREC_COMPARISON == 5
PREC_TERM == 6
PREC_FACTOR == 7
PREC_UNARY == 8
PREC_CALL == 9
PREC_PRIMARY == 10

Token(type, value) == [type |-> type, value |-> value]

scanToken(c) ==
  IF c.next <= Len(c.tokens) THEN c.tokens[c.next] ELSE Token("TOKEN_EOF", 0)

error(c, message) == [c EXCEPT !.parser = errorAt(@, message)]

\* The loop of advance: a TOKEN_ERROR is reported (errorAtCurrent) and the
\* next token is scanned.
RECURSIVE advanceLoop(_)
advanceLoop(c) ==
  With([c EXCEPT !.current = scanToken(c), !.next = @ + 1], LAMBDA c1 :
    IF c1.current.type # "TOKEN_ERROR" THEN c1
    ELSE With(error(c1, "Unexpected character."), LAMBDA c2 : advanceLoop(c2)))

advance(c) == advanceLoop([c EXCEPT !.previous = c.current])

check(c, type) == c.current.type = type

consume(c, type, message) == IF check(c, type) THEN advance(c) ELSE error(c, message)

\* The value is added to the chunk before its index is checked; the operand
\* returned is the index cut to one byte.
makeConstant(c, value) ==
  With(Len(c.constants), LAMBDA constant :
    With([c EXCEPT !.constants = Append(@, value)], LAMBDA c1 :
      IF constant > UINT8_MAX
      THEN [c |-> error(c1, "Too many constants in one chunk."), constant |-> 0]
      ELSE [c |-> c1, constant |-> constant % UINT8_COUNT]))

emitConstant(c, value) ==
  With(makeConstant(c, value), LAMBDA m : emitBytes(m.c, "OP_CONSTANT", m.constant))

NoRule == [prefix |-> "NULL", infix |-> "NULL", precedence |-> PREC_NONE]

rules ==
  [TOKEN_LEFT_PAREN    |-> [prefix |-> "grouping", infix |-> "call", precedence |-> PREC_CALL],
   TOKEN_RIGHT_PAREN   |-> NoRule,
   TOKEN_LEFT_BRACE    |-> NoRule,
   TOKEN_RIGHT_BRACE   |-> NoRule,
   TOKEN_COMMA         |-> NoRule,
   TOKEN_DOT           |-> [prefix |-> "NULL",   infix |-> "dot",    precedence |-> PREC_CALL],
   TOKEN_MINUS         |-> [prefix |-> "unary",  infix |-> "binary", precedence |-> PREC_TERM],
   TOKEN_PLUS          |-> [prefix |-> "NULL",   infix |-> "binary", precedence |-> PREC_TERM],
   TOKEN_SEMICOLON     |-> NoRule,
   TOKEN_SLASH         |-> [prefix |-> "NULL",   infix |-> "binary", precedence |-> PREC_FACTOR],
   TOKEN_STAR          |-> [prefix |-> "NULL",   infix |-> "binary", precedence |-> PREC_FACTOR],
   TOKEN_BANG          |-> [prefix |-> "unary",  infix |-> "NULL",   precedence |-> PREC_NONE],
   TOKEN_BANG_EQUAL    |-> [prefix |-> "NULL",   infix |-> "binary", precedence |-> PREC_EQUALITY],
   TOKEN_EQUAL         |-> NoRule,
   TOKEN_EQUAL_EQUAL   |-> [prefix |-> "NULL",   infix |-> "binary", precedence |-> PREC_EQUALITY],
   TOKEN_GREATER       |-> [prefix |-> "NULL",   infix |-> "binary", precedence |-> PREC_COMPARISON],
   TOKEN_GREATER_EQUAL |-> [prefix |-> "NULL",   infix |-> "binary", precedence |-> PREC_COMPARISON],
   TOKEN_LESS          |-> [prefix |-> "NULL",   infix |-> "binary", precedence |-> PREC_COMPARISON],
   TOKEN_LESS_EQUAL    |-> [prefix |-> "NULL",   infix |-> "binary", precedence |-> PREC_COMPARISON],
   TOKEN_IDENTIFIER    |-> [prefix |-> "variable", infix |-> "NULL", precedence |-> PREC_NONE],
   TOKEN_NUMBER        |-> [prefix |-> "number", infix |-> "NULL",   precedence |-> PREC_NONE],
   TOKEN_AND           |-> [prefix |-> "NULL",   infix |-> "and_",   precedence |-> PREC_AND],
   TOKEN_CLASS         |-> NoRule,
   TOKEN_ELSE          |-> NoRule,
   TOKEN_FALSE         |-> [prefix |-> "literal", infix |-> "NULL",  precedence |-> PREC_NONE],
   TOKEN_FOR           |-> NoRule,
   TOKEN_FUN           |-> NoRule,
   TOKEN_IF            |-> NoRule,
   TOKEN_NIL           |-> [prefix |-> "literal", infix |-> "NULL",  precedence |-> PREC_NONE],
   TOKEN_OR            |-> [prefix |-> "NULL",   infix |-> "or_",    precedence |-> PREC_OR],
   TOKEN_PRINT         |-> NoRule,
   TOKEN_RETURN        |-> NoRule,
   TOKEN_THIS          |-> [prefix |-> "this_",  infix |-> "NULL",   precedence |-> PREC_NONE],
   TOKEN_TRUE          |-> [prefix |-> "literal", infix |-> "NULL",  precedence |-> PREC_NONE],
   TOKEN_VAR           |-> NoRule,
   TOKEN_WHILE         |-> NoRule,
   TOKEN_ERROR         |-> NoRule,
   TOKEN_EOF           |-> NoRule]

getRule(type) == rules[type]

number(c) == emitConstant(c, NUMBER_VAL(c.previous.value))

\* The opcodes binary emits for an operator, after its right operand.
BinaryOpcodes(operatorType) ==
  CASE operatorType = "TOKEN_BANG_EQUAL" -> <<"OP_EQUAL", "OP_NOT">>
    [] operatorType = "TOKEN_EQUAL_EQUAL" -> <<"OP_EQUAL">>
    [] operatorType = "TOKEN_GREATER" -> <<"OP_GREATER">>
    [] operatorType = "TOKEN_GREATER_EQUAL" -> <<"OP_LESS", "OP_NOT">>
    [] operatorType = "TOKEN_LESS" -> <<"OP_LESS">>
    [] operatorType = "TOKEN_LESS_EQUAL" -> <<"OP_GREATER", "OP_NOT">>
    [] operatorType = "TOKEN_PLUS" -> <<"OP_ADD">>
    [] operatorType = "TOKEN_MINUS" -> <<"OP_SUBTRACT">>
    [] operatorType = "TOKEN_STAR" -> <<"OP_MULTIPLY">>
    [] operatorType = "TOKEN_SLASH" -> <<"OP_DIVIDE">>
    [] OTHER -> <<>>

emitOpcodes(c, opcodes) ==
  [c EXCEPT !.code = @ \o [i \in 1..Len(opcodes) |-> Instr(opcodes[i], 0)]]

RECURSIVE parsePrecedence(_, _)

\* binary with the right operand parsed at the operator's own precedence.
binarySamePrecedence(c) ==
  With(<<c.previous.type, getRule(c.previous.type).precedence>>, LAMBDA o :
    With(parsePrecedence(c, o[2]), LAMBDA c1 : emitOpcodes(c1, BinaryOpcodes(o[1]))))

binary(c) ==
  With(<<c.previous.type, getRule(c.previous.type).precedence + 1>>, LAMBDA o :
    With(parsePrecedence(c, o[2]), LAMBDA c1 : emitOpcodes(c1, BinaryOpcodes(o[1]))))

unary(c) ==
  With(c.previous.type, LAMBDA operatorType :
    With(parsePrecedence(c, PREC_UNARY), LAMBDA c1 :
      CASE operatorType = "TOKEN_BANG" -> emitByte(c1, "OP_NOT")
        [] operatorType = "TOKEN_MINUS" -> emitByte(c1, "OP_NEGATE")
        [] OTHER -> c1))

\* The rules that resolve names or emit jumps are defined with the functions
\* they call, further down.
RECURSIVE variableRule(_, _)
RECURSIVE this_(_, _)
RECURSIVE dot(_, _)
RECURSIVE callRule(_, _)
RECURSIVE grouping(_, _)
RECURSIVE and_(_, _)
RECURSIVE or_(_, _)

literal(c) ==
  CASE c.previous.type = "TOKEN_FALSE" -> emitByte(c, "OP_FALSE")
    [] c.previous.type = "TOKEN_NIL" -> emitByte(c, "OP_NIL")
    [] c.previous.type = "TOKEN_TRUE" -> emitByte(c, "OP_TRUE")
    [] OTHER -> c

\* The call of a prefix or infix rule of the table.
ParseFn(c, fn, canAssign) ==
  CASE fn = "number" -> number(c)
    [] fn = "binary" -> binary(c)
    [] fn = "unary" -> unary(c)
    [] fn = "literal" -> literal(c)
    [] fn = "variable" -> variableRule(c, canAssign)
    [] fn = "this_" -> this_(c, canAssign)
    [] fn = "dot" -> dot(c, canAssign)
    [] fn = "call" -> callRule(c, canAssign)
    [] fn = "grouping" -> grouping(c, canAssign)
    [] fn = "and_" -> and_(c, canAssign)
    [] fn = "or_" -> or_(c, canAssign)

\* The infix loop of parsePrecedence.
RECURSIVE parseInfix(_, _)
parseInfix(c, precedence) ==
  IF precedence <= getRule(c.current.type).precedence
  THEN With(advance(c), LAMBDA c1 :
         With(getRule(c1.previous.type).infix, LAMBDA infixRule :
           With(ParseFn(c1, infixRule, precedence <= PREC_ASSIGNMENT), LAMBDA c2 :
             parseInfix(c2, precedence))))
  ELSE c

\* parsePrecedence that lets every prefix and infix rule take an '='.
parsePrecedenceAssignsAnywhere(c, precedence) ==
  With(advance(c), LAMBDA c1 :
    With(getRule(c1.previous.type).prefix, LAMBDA prefixRule :
      IF prefixRule = "NULL" THEN error(c1, "Expect expression.")
      ELSE With(ParseFn(c1, prefixRule, TRUE), LAMBDA c2 :
             With(parseInfix(c2, precedence), LAMBDA c3 :
               IF precedence <= PREC_ASSIGNMENT /\ check(c3, "TOKEN_EQUAL")
               THEN error(advance(c3), "Invalid assignment target.")
               ELSE c3))))

parsePrecedence(c, precedence) ==
  With(advance(c), LAMBDA c1 :
    With(getRule(c1.previous.type).prefix, LAMBDA prefixRule :
      IF prefixRule = "NULL" THEN error(c1, "Expect expression.")
      ELSE With(ParseFn(c1, prefixRule, precedence <= PREC_ASSIGNMENT), LAMBDA c2 :
             With(parseInfix(c2, precedence), LAMBDA c3 :
               IF precedence <= PREC_ASSIGNMENT /\ check(c3, "TOKEN_EQUAL")
               THEN error(advance(c3), "Invalid assignment target.")
               ELSE c3))))

expression(c) == parsePrecedence(c, PREC_ASSIGNMENT)

expressionStatement(c) ==
  With(expression(c), LAMBDA c1 :
    With(consume(c1, "TOKEN_SEMICOLON", "Expect ';' after expression."), LAMBDA c2 :
      emitByte(c2, "OP_POP")))

\* returnStatement that takes a return at top level like any other.
returnStatementAnywhere(c) ==
  IF check(c, "TOKEN_SEMICOLON") THEN emitReturn(advance(c))
  ELSE With(IF c.type = "TYPE_INITIALIZER"
            THEN error(c, "Can't return a value from an initializer.") ELSE c,
            LAMBDA c2 :
         With(expression(c2), LAMBDA c3 :
           With(consume(c3, "TOKEN_SEMICOLON", "Expect ';' after return value."),
                LAMBDA c4 : emitByte(c4, "OP_RETURN"))))

returnStatement(c) ==
  With(IF c.type = "TYPE_SCRIPT" THEN error(c, "Can't return from top-level code.") ELSE c,
       LAMBDA c1 :
    IF check(c1, "TOKEN_SEMICOLON") THEN emitReturn(advance(c1))
    ELSE With(IF c1.type = "TYPE_INITIALIZER"
              THEN error(c1, "Can't return a value from an initializer.") ELSE c1,
              LAMBDA c2 :
           With(expression(c2), LAMBDA c3 :
             With(consume(c3, "TOKEN_SEMICOLON", "Expect ';' after return value."),
                  LAMBDA c4 : emitByte(c4, "OP_RETURN")))))

printStatement(c) ==
  With(expression(c), LAMBDA c1 :
    With(consume(c1, "TOKEN_SEMICOLON", "Expect ';' after value."), LAMBDA c2 :
      emitByte(c2, "OP_PRINT")))

statement(c) ==
  IF check(c, "TOKEN_PRINT") THEN printStatement(advance(c))
  ELSE IF check(c, "TOKEN_RETURN") THEN returnStatement(advance(c))
  ELSE expressionStatement(c)

\* The FunctionType method() compiles a method of this name with.
methodType(name) ==
  IF Len(name) = Len(STR_init) /\ name = STR_init THEN "TYPE_INITIALIZER" ELSE "TYPE_METHOD"

STR_this == <<116, 104, 105, 115>>

\* A ClassCompiler; currentClass is the list of them, innermost last, and is
\* empty where the C variable is NULL.
ClassCompiler == [hasSuperclass |-> FALSE]

\* A Compiler whose slot 0 is named "this" for the two method types only.
CompilerAtThisInMethods(type, tokens, p) ==
  [type |-> type, tokens |-> tokens, next |-> 2, previous |-> Token("TOKEN_EOF", 0),
   current |-> tokens[1], parser |-> p, code |-> <<>>, constants |-> <<>>,
   locals |-> <<[name |-> IF type \in {"TYPE_METHOD", "TYPE_INITIALIZER"}
                          THEN STR_this ELSE <<>>,
                 depth |-> 0, isCaptured |-> FALSE]>>,
   upvalues |-> <<>>, arity |-> 0, scopeDepth |-> 0, argCount |-> 0,
   enclosing |-> <<>>,
   currentClass |-> IF type \in {"TYPE_METHOD", "TYPE_INITIALIZER"}
                    THEN <<ClassCompiler>> ELSE <<>>]

\* The Compiler at the first token of a statement of a function of this type;
\* argCount is the counter of an argumentList at work.
CompilerAt(type, tokens, p) ==
  [type |-> type, tokens |-> tokens, next |-> 2, previous |-> Token("TOKEN_EOF", 0),
   current |-> tokens[1], parser |-> p, code |-> <<>>, constants |-> <<>>,
   locals |-> <<[name |-> IF type # "TYPE_FUNCTION" THEN STR_this ELSE <<>>,
                 depth |-> 0, isCaptured |-> FALSE]>>,
   upvalues |-> <<>>, arity |-> 0, scopeDepth |-> 0, argCount |-> 0,
   enclosing |-> <<>>,
   currentClass |-> IF type \in {"TYPE_METHOD", "TYPE_INITIALIZER"}
                    THEN <<ClassCompiler>> ELSE <<>>]

\* ---- what the chunk computes
\* The value an expression's code leaves on the stack, as the expression tree
\* in prefix form: the operator, then its operands left to right.
Operand(value) == <<Token("TOKEN_NUMBER", value.v)>>

Applied(op, operands) == <<Token(op, 0)>> \o operands

\* run, on the instructions of a chunk from ip, with the stack as it stands.
RECURSIVE run(_, _, _)
run(c, ip, st) ==
  IF ip > Len(c.code) THEN st
  ELSE With(c.code[ip], LAMBDA instruction :
    With(Len(st), LAMBDA top :
      With(CASE instruction.op = "OP_CONSTANT" ->
                  Append(st, Operand(c.constants[instruction.a + 1]))
             [] instruction.op \in {"OP_EQUAL", "OP_GREATER", "OP_LESS", "OP_ADD",
                                    "OP_SUBTRACT", "OP_MULTIPLY", "OP_DIVIDE"} ->
                  Append(SubSeq(st, 1, top - 2),
                         Applied(instruction.op, st[top - 1] \o st[top]))
             [] instruction.op \in {"OP_NOT", "OP_NEGATE"} ->
                  Append(SubSeq(st, 1, top - 1), Applied(instruction.op, st[top]))
             [] instruction.op = "OP_NIL" -> Append(st, <<Token("nil", 0)>>)
             [] instruction.op = "OP_GET_LOCAL" -> Append(st, <<Token("local", instruction.a)>>)
             [] instruction.op \in {"OP_POP", "OP_RETURN"} ->
                  <<st[top]>>,
           LAMBDA st1 :
             IF instruction.op \in {"OP_POP", "OP_RETURN"} THEN st1
             ELSE run(c, ip + 1, st1))))

\* ---- the inputs
MaxOperators == 3

BinaryOperators ==
  {"TOKEN_EQUAL_EQUAL", "TOKEN_BANG_EQUAL", "TOKEN_LESS", "TOKEN_GREATER",
   "TOKEN_LESS_EQUAL", "TOKEN_GREATER_EQUAL", "TOKEN_PLUS", "TOKEN_MINUS",
   "TOKEN_STAR", "TOKEN_SLASH"}

\* operand 1, ops[1], operand 2, ... : the i-th operand is the number i.
ExpressionOf(operators) ==
  [i \in 1..(2 * Len(operators) + 1) |->
     IF i % 2 = 1 THEN Token("TOKEN_NUMBER", (i + 1) \div 2)
     ELSE Token(operators[i \div 2], 0)]

Expressions(n) ==
  UNION {{ExpressionOf(operators) : operators \in [1..k -> BinaryOperators]} : k \in 0..n}

Semicolon == <<Token("TOKEN_SEMICOLON", 0)>>

ReturnStatements ==
  {<<Token("TOKEN_RETURN", 0)>> \o e \o Semicolon : e \in Expressions(1) \union {<<>>}}

\* Where the statement stands: at top level, in a function, or in a method of
\* the given name.
Declared ==
  {[in |-> "script", name |-> <<>>], [in |-> "function", name |-> STR_g],
   [in |-> "method", name |-> STR_init], [in |-> "method", name |-> STR_g],
   [in |-> "method", name |-> STR_init \o STR_g]}

TypeOf(declared) ==
  CASE declared.in = "script" -> "TYPE_SCRIPT"
    [] declared.in = "function" -> "TYPE_FUNCTION"
    [] declared.in = "method" -> methodType(declared.name)

\* The Parser when an earlier error of the same declaration has put it in panic
\* mode.
Panicking == errorAt(NoError, "Expect '(' after 'if'.")

CompileInit ==
  /\ Holds(initVM) /\ NoTable /\ NoCounts /\ stress = FALSE
  /\ prog = 0 /\ result = "none" /\ runs = 0 /\ last = Saw("none")
  /\ phase = "compile" /\ outcome = <<>>
  /\ \/ source \in {[declared |-> [in |-> "script", name |-> <<>>], panicMode |-> FALSE,
                     tokens |-> e \o Semicolon] : e \in Expressions(MaxOperators)}
     \/ source \in [declared : Declared, panicMode : BOOLEAN, tokens : ReturnStatements]
  /\ parser = IF source.panicMode THEN Panicking ELSE NoError
  /\ current = CompilerAt(TypeOf(source.declared), source.tokens, parser)

\* statement() on the source text; compile returns the chunk or NULL.
Statement ==
  /\ phase = "compile" /\ source # <<>>
  /\ \E c \in {current} : \E c1 \in {statement(c)} :
       /\ current' = c1 /\ parser' = c1.parser
       /\ phase' = IF compileResult(c1.parser, 1) = NULL THEN "idle" ELSE "run"
       /\ result' = IF compileResult(c1.parser, 1) = NULL THEN "compile_error" ELSE "none"
  /\ last' = Saw("statement")
  /\ UNCHANGED <<vmvars, stress, prog, runs, tablevars, source, outcome, memvars>>

\* The chunk runs up to the OP_POP or OP_RETURN that takes the statement's value.
Run ==
  /\ phase = "run" /\ source # <<>>
  /\ \E c \in {current} : outcome' = run(c, 1, <<>>)[1]
  /\ phase' = "idle" /\ result' = "ok" /\ last' = Saw("run")
  /\ UNCHANGED <<vmvars, stress, prog, runs, tablevars, source, current, parser, memvars>>

CompileNext == Statement \/ Run

SpecCompile == CompileInit /\ [][CompileNext]_vars

\* ------------------------------------------- SpecLimits: one-byte operands
\* A function body that keeps declaring locals, capturing variables, adding
\* constants, taking parameters or passing arguments, past what one byte holds.
Local(name, depth) == [name |-> name, depth |-> depth, isCaptured |-> FALSE]

\* addLocal without the check of localCount.
addLocalUnchecked(c, name) == [c EXCEPT !.locals = Append(@, Local(name, -1))]

addLocal(c, name) ==
  IF Len(c.locals) = UINT8_COUNT THEN error(c, "Too many local variables in function.")
  ELSE [c EXCEPT !.locals = Append(@, Local(name, -1))]

markInitialized(c) ==
  IF c.scopeDepth = 0 THEN c ELSE [c EXCEPT !.locals[Len(c.locals)].depth = c.scopeDepth]

\* resolveLocal that takes the first local of the name.
resolveLocalOldest(c, name) ==
  With({i \in 1..Len(c.locals) : c.locals[i].name = name}, LAMBDA found :
    IF found = {} THEN [c |-> c, arg |-> -1]
    ELSE With(CHOOSE i \in found : \A j \in found : i <= j, LAMBDA i :
           [c |-> IF c.locals[i].depth = -1
                  THEN error(c, "can't read local variable in its own initializer.")
                  ELSE c,
            arg |-> i - 1]))

\* The index of the last local of this name, or -1.
resolveLocal(c, name) ==
  With({i \in 1..Len(c.locals) : c.locals[i].name = name}, LAMBDA found :
    IF found = {} THEN [c |-> c, arg |-> -1]
    ELSE With(CHOOSE i \in found : \A j \in found : j <= i, LAMBDA i :
           [c |-> IF c.locals[i].depth = -1
                  THEN error(c, "can't read local variable in its own initializer.")
                  ELSE c,
            arg |-> i - 1]))

\* addUpvalue that never finds the entry.
addUpvalueAgain(c, index, isLocal) ==
  IF Len(c.upvalues) = UINT8_COUNT
  THEN [c |-> error(c, "Too many closure variables in function."), arg |-> 0]
  ELSE [c |-> [c EXCEPT !.upvalues = Append(@, [isLocal |-> isLocal, index |-> index])],
        arg |-> Len(c.upvalues)]

addUpvalue(c, index, isLocal) ==
  With({i \in 1..Len(c.upvalues) : c.upvalues[i] = [isLocal |-> isLocal, index |-> index]},
       LAMBDA found :
    IF found # {} THEN [c |-> c, arg |-> (CHOOSE i \in found : TRUE) - 1]
    ELSE IF Len(c.upvalues) = UINT8_COUNT
         THEN [c |-> error(c, "Too many closure variables in function."), arg |-> 0]
         ELSE [c |-> [c EXCEPT !.upvalues = Append(@, [isLocal |-> isLocal, index |-> index])],
               arg |-> Len(c.upvalues)])

\* namedVariable for a name read as a local or else as a global: the operand
\* is the index cut to one byte.
namedVariable(c, name) ==
  With(resolveLocal(c, name), LAMBDA r :
    IF r.arg # -1 THEN emitBytes(r.c, "OP_GET_LOCAL", r.arg % UINT8_COUNT)
    ELSE With(makeConstant(r.c, name), LAMBDA m :
           emitBytes(m.c, "OP_GET_GLOBAL", m.constant % UINT8_COUNT)))

\* One turn of the parameter loop of function().
parameter(c, name) ==
  With([c EXCEPT !.arity = @ + 1], LAMBDA c1 :
    With(IF c1.arity > UINT8_MAX
         THEN error(c1, "Can't have more than 255 parameters.") ELSE c1, LAMBDA c2 :
      With(addLocal(c2, name), LAMBDA c3 : markInitialized(c3))))

\* One turn of the loop of argumentList, after the argument's expression:
\* argCount is a uint8_t.
argument(c) ==
  With(IF c.argCount = UINT8_MAX
       THEN error(c, "Can't have more than 255 arguments.") ELSE c, LAMBDA c1 :
    [c1 EXCEPT !.argCount = (@ + 1) % UINT8_COUNT])

\* How many items past a limit the text goes on for.
MaxExcess == 1

LimitKinds == {"local", "upvalue", "constant", "parameter", "argument"}

\* The last operand emitted, the index it stands for, and whether any operand
\* emitted so far differed from the index it stands for.
Emitted(operand, wanted) ==
  [operand |-> operand, wanted |-> wanted, truncated |-> outcome.truncated \/ operand # wanted]

LimitsInit ==
  /\ Holds(initVM) /\ NoTable /\ NoCounts /\ stress = FALSE
  /\ prog = 0 /\ result = "none" /\ runs = 0 /\ last = Saw("none")
  /\ phase = "compile" /\ parser = NoError
  /\ source \in [kind : LimitKinds, n : {0}, closed : {FALSE}]
  /\ current = [CompilerAt("TYPE_FUNCTION", <<Token("TOKEN_EOF", 0)>>, NoError)
                  EXCEPT !.scopeDepth = 1]
  /\ outcome = [operand |-> 0, wanted |-> 0, truncated |-> FALSE]

\* The text goes on with one more item of its kind, which takes the compiler
\* to c.
More(kind, c) ==
  /\ source.kind = kind /\ ~source.closed /\ source.n < UINT8_COUNT + MaxExcess
  /\ source' = [source EXCEPT !.n = @ + 1]
  /\ current' = c /\ parser' = c.parser
  /\ last' = Saw(kind)
  /\ UNCHANGED <<vmvars, stress, phase, prog, result, runs, tablevars, memvars>>

\* The name of the n-th variable of the text.
NameOf(n) == <<n>>

\*   var x; x;        for a new name x
LimitLocal ==
  /\ source.kind = "local"
  /\ \E c \in {current} : \E name \in {NameOf(source.n + 1)} :
       \E c1 \in {addLocal(c, name)} : \E c2 \in {markInitialized(c1)} :
         \E c3 \in {namedVariable(c2, name)} :
           /\ More("local", c3)
           /\ outcome' = Emitted(c3.code[Len(c3.code)].a,
                                 IF c3.code[Len(c3.code)].op = "OP_GET_LOCAL"
                                 THEN Len(c3.locals) - 1 ELSE Len(c3.constants) - 1)

\* A read of one more variable of the enclosing functions: the first
\* UINT8_COUNT of them are locals of the function around, the rest upvalues of it.
LimitUpvalue ==
  /\ source.kind = "upvalue"
  /\ \E c \in {current} : \E k \in {source.n} :
       \E u \in {addUpvalue(c, k % UINT8_COUNT, k < UINT8_COUNT)} :
         /\ More("upvalue", emitBytes(u.c, "OP_GET_UPVALUE", u.arg % UINT8_COUNT))
         /\ outcome' = Emitted(u.arg % UINT8_COUNT, k)

\* A number literal.
LimitConstant ==
  /\ source.kind = "constant"
  /\ \E c \in {current} : \E c1 \in {emitConstant(c, NUMBER_VAL(source.n + 1))} :
       /\ More("constant", c1)
       /\ outcome' = Emitted(c1.code[Len(c1.code)].a, Len(c1.constants) - 1)

LimitParameter ==
  /\ source.kind = "parameter"
  /\ \E c \in {current} : More("parameter", parameter(c, NameOf(source.n + 1)))
  /\ UNCHANGED outcome

LimitArgument ==
  /\ source.kind = "argument"
  /\ \E c \in {current} : More("argument", argument(c))
  /\ UNCHANGED outcome

\* The ')' of the argument list: call emits OP_CALL with argCount.
LimitCall ==
  /\ source.kind = "argument" /\ ~source.closed
  /\ source' = [source EXCEPT !.closed = TRUE]
  /\ \E c \in {current} : \E c1 \in {emitBytes(c, "OP_CALL", c.argCount)} :
       /\ current' = c1
       /\ outcome' = Emitted(c1.code[Len(c1.code)].a, source.n)
  /\ last' = Saw("call")
  /\ UNCHANGED <<vmvars, stress, phase, prog, result, runs, tablevars, parser, memvars>>

LimitsNext ==
  \/ LimitLocal \/ LimitUpvalue \/ LimitConstant \/ LimitParameter \/ LimitArgument
  \/ LimitCall

SpecLimits == LimitsInit /\ [][LimitsNext]_vars

\* ------------------------------------------------------- claims on the table
IsTombstone(entry) == entry.key = NULL /\ ~IS_NIL(entry.value)

HasTombstone(table) == \E i \in 1..table.capacity : IsTombstone(table.entries[i])

IsPowerOfTwo(n) == \E e \in 0..16 : n = 2 ^ e

LoadFactorOK(table) ==
  /\ table.count * 4 <= table.capacity * 3
  /\ table.capacity = 0 \/ IsPowerOfTwo(table.capacity)
  /\ table.count = Cardinality({i \in 1..table.capacity :
                                 table.entries[i].key # NULL \/ IsTombstone(table.entries[i])})

\* C7: after any sequence of tableSet, tableDelete and tableAddAll, the count of
\* a table (live entries plus tombstones) is at most 0.75 * capacity and the
\* capacity is 0 or a power of two.
C7_LoadFactor ==
  /\ LoadFactorOK(tbl) /\ LoadFactorOK(src)
  /\ LoadFactorOK(globals) /\ LoadFactorOK(strings)

\* A set has just filled tbl to exactly 0.75 * capacity with a tombstone among
\* the counted entries.
C7_Witness ==
  /\ tret.op = "set" /\ tret.r
  /\ tbl.capacity = 8 /\ tbl.count = 6 /\ HasTombstone(tbl)

\* The slots findEntry inspects for a present key before the one it returns.
ProbedSlots(h, table, key) ==
  LET home  == HashIndex(h[key].hash, table.capacity)
      found == findEntry(h, table.entries, table.capacity, key)
  IN  {(home + d) % table.capacity :
         d \in 0..(((found - home + table.capacity) % table.capacity) - 1)}

\* What tableGet(key) returns on a finite map holding tmodel.
MapGet(key) ==
  [found |-> tmodel[key] # ABSENT,
   value |-> IF tmodel[key] # ABSENT THEN tmodel[key] ELSE NIL_VAL]

\* C8: the table is a finite map: tableGet(k) succeeds with v exactly when the
\* last operation on k was tableSet(k, v), tableSet returns true exactly when k
\* was absent, and tableDelete returns true exactly when k was present.
C8_FiniteMap ==
  /\ \A k \in TableKeys : tableGet(VM, VmTable("tbl"), k) = MapGet(k)
  /\ tret.op = "get" =>
       /\ tret.r = tret.present
       /\ tret.r => tret.value = tret.expected
  /\ tret.op = "set" => tret.r = ~tret.present
  /\ tret.op = "delete" => tret.r = tret.present

\* A tableGet has just succeeded for a key whose probe sequence passes over a
\* tombstone.
C8_Witness ==
  /\ tret.op = "get" /\ tret.r /\ tret.value = tret.expected
  /\ \E i \in ProbedSlots(heap, tbl, tret.key) : IsTombstone(tbl.entries[i + 1])

\* ---------------------------------------------------- claims on the collector
\* C1: every completed collectGarbage leaves unfreed, and on vm.objects, every
\* object the program can still reach (from the stack, the frames' closures,
\* the open upvalues, the globals, the compilers' functions and initString,
\* through object references and the variable an upvalue refers to), and frees
\* every object it cannot reach; this holds across successive interpret calls.
C1_CollectionKeepsReachable == audit.lost = {} /\ audit.kept = {}

\* C2: in a build that collects at every growing allocation, no instruction and
\* no collection reads an object that has been freed.
C2_StressNoUseAfterFree == stress => fault = "none"

\* ----------------------------------------------------- claims on interning
LiveStrings == {o \in 1..Len(heap) : heap[o].type = "string"}

StringKeys == {strings.entries[i].key : i \in 1..strings.capacity} \ {NULL}

ObjectList == {objects[i] : i \in DOMAIN objects}

\* C3: no two live strings have the same characters, every live string is a key
\* of vm.strings, and copyString and takeString return a string with the
\* characters asked for, the one already interned when there is one.
C3_InternUnique ==
  /\ \A a, b \in LiveStrings : heap[a].chars = heap[b].chars => a = b
  /\ LiveStrings \subseteq StringKeys
  /\ last.op \in {"copyString", "takeString"} =>
       /\ last.name \in LiveStrings
       /\ heap[last.name].chars = last.chars
       /\ last.defined => OBJ_VAL(last.name) = last.expected

\* takeString has just returned a string that was already interned, found past
\* a tombstone an earlier collection left in vm.strings.
C3_Witness ==
  /\ last.op = "takeString" /\ last.defined
  /\ OBJ_VAL(last.name) = last.expected
  /\ HasTombstone(strings)

\* C4: every key of vm.strings is a live string of vm.objects: a collection
\* deletes the unmarked keys before it frees any object.
C4_InternKeysLive ==
  \A key \in StringKeys :
    IsLive(heap, key) /\ heap[key].type = "string" /\ key \in ObjectList

\* A collection has freed a string and left a tombstone for it in a vm.strings
\* that has grown past its first capacity.
C4_Witness ==
  /\ HasTombstone(strings) /\ strings.capacity > TABLE_MIN_CAPACITY
  /\ \E o \in 1..Len(heap) : heap[o] = FREED
  /\ fault = "none"

\* ------------------------------------------------------ claims on upvalues
Upvalues == {o \in 1..Len(heap) : heap[o].type = "upvalue"}

\* The upvalues the program can reach that are not closed.
OpenUpvalues == {u \in Upvalues \cap Reachable(VM) : heap[u].location # CLOSED}

\* C5: closures that capture the same variable of the same frame activation
\* hold the same upvalue object, and a read through an upvalue yields the value
\* last written to its variable, before and after the variable is closed.
C5_UpvalueSharing ==
  /\ \A a, b \in Upvalues :
       (heap[a].act = heap[b].act /\ heap[a].slot = heap[b].slot) => a = b
  /\ last.op = "OP_GET_UPVALUE" => last.value = last.expected

\* C6: the open-upvalue list has strictly decreasing locations from head to
\* tail, and at most one open upvalue exists per stack slot.
C6_OpenUpvaluesSorted ==
  /\ \A i \in 1..(Len(UpvalueList(heap, openUpvalues)) - 1) :
       heap[UpvalueList(heap, openUpvalues)[i]].location
         > heap[UpvalueList(heap, openUpvalues)[i + 1]].location
  /\ \A a, b \in OpenUpvalues : heap[a].location = heap[b].location => a = b

\* ----------------------------------------------------- claims on the machine
\* C9: OP_SET_GLOBAL on a name that is not defined ends the run with a runtime
\* error and leaves the globals as they were; on a defined name it overwrites
\* the value, changes no other global and leaves the value on the stack.
C9_SetGlobal ==
  (last.op = "OP_SET_GLOBAL" /\ phase # "fault") =>
    IF last.defined
    THEN /\ phase = "run"
         /\ TableContents(globals)
              = {e \in last.before : e[1] # last.name} \union {<<last.name, last.value>>}
         /\ \E e \in last.before : e[1] = last.name
         /\ stackTop > 0 /\ stack[stackTop] = last.value
    ELSE /\ phase = "idle" /\ result = "runtime_error"
         /\ TableContents(globals) = last.before
         /\ \A e \in last.before : e[1] # last.name

\* OP_SET_GLOBAL has just failed on an undefined name while other globals were
\* defined, its tableDelete leaving a tombstone.
C9_Witness ==
  /\ last.op = "OP_SET_GLOBAL" /\ ~last.defined /\ phase = "idle"
  /\ Cardinality(last.before) > 1 /\ HasTombstone(globals)

\* C10: when interpret has returned, with any of its three results, the stack
\* is empty, there is no frame and the open-upvalue list is empty; a runtime
\* error always returns; the next interpret starts from that stack with the
\* globals it found.
C10_IdleAfterInterpret ==
  /\ (phase = "idle" /\ runs > 0) =>
       /\ result \in {"ok", "compile_error", "runtime_error"}
       /\ stackTop = 0 /\ frames = <<>> /\ openUpvalues = NULL
  /\ result # "none" => phase = "idle"
  /\ (last.op = "interpret" /\ phase # "fault") =>
       /\ TableContents(globals) = last.before
       /\ stackTop = 0 /\ frames = <<>> /\ openUpvalues = NULL

\* A second interpret has returned a runtime error from inside a call, with the
\* values of the aborted run still in the slots above stackTop.
C10_Witness ==
  /\ phase = "idle" /\ runs = MaxRuns /\ result = "runtime_error"
  /\ last.op = "OP_ADD" /\ stackTop = 0
  /\ \E i \in 1..MaxStack : stack[i] # NIL_VAL

\* ------------------------------------------------- claims on the compiler
\* C11: compile returns NULL exactly when an error was reported during that
\* compilation; interpret then returns INTERPRET_COMPILE_ERROR with the stack
\* empty and no frame, and executes no instruction.
C11_CompileError ==
  /\ (last.op = "compile" /\ phase # "fault") =>
       /\ last.name = NULL <=> Len(parser.reported) > 0
       /\ IF last.name = NULL
          THEN /\ phase = "idle" /\ result = "compile_error"
               /\ stackTop = 0 /\ frames = <<>>
          ELSE phase = "run" /\ result = "none"
  /\ result = "compile_error" => last.op = "compile" /\ last.name = NULL

\* A second interpret has returned a compile error after two reported errors
\* and one dropped in panic mode, on a VM whose first run defined globals.
C11_Witness ==
  /\ result = "compile_error" /\ runs = MaxRuns
  /\ Len(parser.reported) = 2 /\ ~parser.panicMode
  /\ globals.count > 0

\* What the statement under compilation is.
IsReturn == source.tokens[1].type = "TOKEN_RETURN"

ReturnsValue == IsReturn /\ source.tokens[2].type # "TOKEN_SEMICOLON"

Reported(message) == \E i \in 1..Len(parser.reported) : parser.reported[i] = message

Level(type) ==
  CASE type \in {"TOKEN_EQUAL_EQUAL", "TOKEN_BANG_EQUAL"} -> 1
    [] type \in {"TOKEN_LESS", "TOKEN_GREATER", "TOKEN_LESS_EQUAL", "TOKEN_GREATER_EQUAL"} -> 2
    [] type \in {"TOKEN_PLUS", "TOKEN_MINUS"} -> 3
    [] type \in {"TOKEN_STAR", "TOKEN_SLASH"} -> 4

\* The fully parenthesised reading of operand (operator operand)*, in prefix
\* form: with every operator left-associative, the last one applied is the
\* rightmost operator of the lowest level.
RECURSIVE Parenthesised(_)
Parenthesised(e) ==
  IF Len(e) = 1 THEN e
  ELSE LET at == {i \in 1..Len(e) : i % 2 = 0}
           lowest == CHOOSE l \in {Level(e[i].type) : i \in at} :
                       \A i \in at : l <= Level(e[i].type)
           k == CHOOSE i \in at :
                  /\ Level(e[i].type) = lowest
                  /\ \A j \in at : Level(e[j].type) = lowest => j <= i
       IN  <<e[k]>> \o Parenthesised(SubSeq(e, 1, k - 1))
                   \o Parenthesised(SubSeq(e, k + 1, Len(e)))

\* The source operator an opcode computes, and the one its negation computes.
OperatorOf(op) ==
  CASE op = "OP_EQUAL" -> "TOKEN_EQUAL_EQUAL" [] op = "OP_GREATER" -> "TOKEN_GREATER"
    [] op = "OP_LESS" -> "TOKEN_LESS" [] op = "OP_ADD" -> "TOKEN_PLUS"
    [] op = "OP_SUBTRACT" -> "TOKEN_MINUS" [] op = "OP_MULTIPLY" -> "TOKEN_STAR"
    [] op = "OP_DIVIDE" -> "TOKEN_SLASH" [] OTHER -> op

NegationOf(op) ==
  CASE op = "OP_EQUAL" -> "TOKEN_BANG_EQUAL" [] op = "OP_GREATER" -> "TOKEN_LESS_EQUAL"
    [] op = "OP_LESS" -> "TOKEN_GREATER_EQUAL"

\* The computed tree in source operators: !(a == b) is a != b, !(a > b) is
\* a <= b, !(a < b) is a >= b.
RECURSIVE Meaning(_)
Meaning(tree) ==
  IF tree = <<>> THEN <<>>
  ELSE IF Len(tree) > 1 /\ tree[1].type = "OP_NOT"
          /\ tree[2].type \in {"OP_EQUAL", "OP_GREATER", "OP_LESS"}
       THEN <<Token(NegationOf(tree[2].type), 0)>> \o Meaning(SubSeq(tree, 3, Len(tree)))
       ELSE <<Token(OperatorOf(tree[1].type), tree[1].value)>> \o Meaning(Tail(tree))

\* C20: an expression of operands and the binary operators == != < > <= >=
\* + - * / compiles without error, and its code computes the expression as
\* parenthesised by the levels EQUALITY < COMPARISON < TERM < FACTOR with every
\* operator left-associative.
C20_BinaryPrecedence ==
  ~IsReturn =>
    /\ last.op = "statement" => phase = "run" /\ parser = NoError
    /\ last.op = "run" =>
         Meaning(outcome) = Parenthesised(SubSeq(source.tokens, 1, Len(source.tokens) - 1))

\* 1 - 2 * 3 - 4 has been computed as (1 - (2 * 3)) - 4.
C20_Witness ==
  /\ last.op = "run"
  /\ source.tokens = ExpressionOf(<<"TOKEN_MINUS", "TOKEN_STAR", "TOKEN_MINUS">>) \o Semicolon
  /\ outcome = <<Token("OP_SUBTRACT", 0), Token("OP_SUBTRACT", 0), Token("TOKEN_NUMBER", 1),
                 Token("OP_MULTIPLY", 0), Token("TOKEN_NUMBER", 2), Token("TOKEN_NUMBER", 3),
                 Token("TOKEN_NUMBER", 4)>>

\* The most items of a kind one function, or one call, may have.
LimitOf(kind) == IF kind \in {"parameter", "argument"} THEN 255 ELSE 256

LimitMessage(kind) ==
  CASE kind = "local" -> "Too many local variables in function."
    [] kind = "upvalue" -> "Too many closure variables in function."
    [] kind = "constant" -> "Too many constants in one chunk."
    [] kind = "parameter" -> "Can't have more than 255 parameters."
    [] kind = "argument" -> "Can't have more than 255 arguments."

\* The items of its kind the text has had so far: slot 0 is a local too.
Items == IF source.kind = "local" THEN source.n + 1 ELSE source.n

\* C16: while no compile error has been reported no operand emitted differs
\* from the index it stands for, and the function has at most 256 locals, 256
\* upvalues, 256 constants and 255 parameters and the call at most 255
\* arguments; a text that goes past a limit has its error reported, so compile
\* returns NULL.
C16_OperandLimits ==
  /\ ~parser.hadError =>
       /\ ~outcome.truncated
       /\ Len(current.locals) <= LimitOf("local")
       /\ Len(current.upvalues) <= LimitOf("upvalue")
       /\ Len(current.constants) <= LimitOf("constant")
       /\ current.arity <= LimitOf("parameter")
       /\ source.kind = "argument" => source.n <= LimitOf("argument")
  /\ Items > LimitOf(source.kind) =>
       /\ parser.reported = <<LimitMessage(source.kind)>>
       /\ compileResult(parser, 1) = NULL

\* A call with 256 arguments has been compiled: its OP_CALL operand is 0 and
\* the error has been reported.
C16_Witness ==
  /\ source.kind = "argument" /\ source.closed /\ source.n = LimitOf("argument") + 1
  /\ outcome.operand = 0 /\ outcome.truncated
  /\ parser.hadError

\* ------------------------------------------------- claims on the collector
\* C15: between collections every object of vm.objects is unmarked: objects
\* are allocated unmarked and sweep clears the mark of each object it keeps.
C15_UnmarkedOutsideCollection ==
  fault = "none" => \A o \in ObjectList : heap[o].isMarked = FALSE

\* A collection has freed an object and kept a closure and a string.
C15_Witness ==
  /\ fault = "none"
  /\ \E o \in 1..Len(heap) : heap[o] = FREED
  /\ \E o \in ObjectList : heap[o].type = "closure"
  /\ \E o \in ObjectList : heap[o].type = "string"

\* The closures the program can reach.
Closures == {o \in Reachable(VM) : heap[o].type = "closure"}

\* C19: every upvalue a closure refers to is open, that is in vm.openUpvalues
\* with its location a stack slot below stackTop, or closed, in every state,
\* between interpret calls and after a runtime error included.
C19_UpvalueOpenOrClosed ==
  fault = "none" =>
    \A c \in Closures :
      \A i \in 1..Len(heap[c].upvalues) :
        \/ heap[heap[c].upvalues[i]].location = CLOSED
        \/ \E j \in 1..Len(UpvalueList(heap, openUpvalues)) :
             /\ UpvalueList(heap, openUpvalues)[j] = heap[c].upvalues[i]
             /\ heap[heap[c].upvalues[i]].location <= stackTop

\* ------------------------------------------------------ claims on the stack
\* The stack effect the bytecode table lists for an instruction that neither
\* calls nor returns.
StackEffect(op) ==
  CASE op \in {"OP_CONSTANT", "OP_NIL", "OP_TRUE", "OP_FALSE"} -> 1
    [] op = "OP_POP" -> -1
    [] op = "OP_GET_LOCAL" -> 1
    [] op = "OP_SET_LOCAL" -> 0
    [] op = "OP_GET_GLOBAL" -> 1
    [] op = "OP_DEFINE_GLOBAL" -> -1
    [] op = "OP_SET_GLOBAL" -> 0
    [] op = "OP_GET_UPVALUE" -> 1
    [] op = "OP_SET_UPVALUE" -> 0
    [] op = "OP_GET_PROPERTY" -> 0
    [] op = "OP_SET_PROPERTY" -> -1
    [] op \in {"OP_EQUAL", "OP_GREATER", "OP_LESS", "OP_ADD", "OP_SUBTRACT",
               "OP_MULTIPLY", "OP_DIVIDE"} -> -1
    [] op \in {"OP_NOT", "OP_NEGATE"} -> 0
    [] op = "OP_PRINT" -> -1
    [] op \in {"OP_JUMP", "OP_JUMP_IF_FALSE", "OP_LOOP"} -> 0
    [] op = "OP_CLOSURE" -> 1
    [] op = "OP_CLOSE_UPVALUE" -> -1
    [] op = "OP_CLASS" -> 1
    [] op = "OP_INHERIT" -> -1
    [] op = "OP_METHOD" -> -1

PlainOpcodes ==
  {"OP_CONSTANT", "OP_NIL", "OP_TRUE", "OP_FALSE", "OP_POP", "OP_GET_LOCAL",
   "OP_SET_LOCAL", "OP_GET_GLOBAL", "OP_DEFINE_GLOBAL", "OP_SET_GLOBAL",
   "OP_GET_UPVALUE", "OP_SET_UPVALUE", "OP_GET_PROPERTY", "OP_SET_PROPERTY",
   "OP_EQUAL", "OP_GREATER", "OP_LESS", "OP_ADD", "OP_SUBTRACT", "OP_MULTIPLY",
   "OP_DIVIDE", "OP_NOT", "OP_NEGATE", "OP_PRINT", "OP_JUMP", "OP_JUMP_IF_FALSE",
   "OP_LOOP", "OP_CLOSURE", "OP_CLOSE_UPVALUE", "OP_CLASS", "OP_INHERIT", "OP_METHOD"}

\* The instruction last executed ended without a runtime error.
Succeeded(op) == last.op = op /\ phase = "run"

\* C17: an instruction that neither calls nor returns, executed without a
\* runtime error, changes the height of the operand stack by the stack effect
\* the bytecode table lists for it.
C17_StackEffects ==
  \A op \in PlainOpcodes : Succeeded(op) => stackTop - last.height = StackEffect(op)

\* OP_METHOD has put a method into the class under it and popped the closure.
C17_Witness ==
  /\ Succeeded("OP_METHOD") /\ stackTop = last.height - 1
  /\ heap[AS_OBJ(stack[stackTop])].type = "class"
  /\ heap[AS_OBJ(stack[stackTop])].methods.count > 0

\* C18: OP_GET_SUPER executed without a runtime error lowers the operand stack
\* by one: it pops the superclass and the receiver and pushes the bound method.
C18_GetSuperPopsOne ==
  Succeeded("OP_GET_SUPER") =>
    /\ stackTop = last.height - 1
    /\ heap[AS_OBJ(stack[stackTop])].type = "boundMethod"
    /\ heap[AS_OBJ(stack[stackTop])].receiver = last.value

\* OP_GET_SUPER executed without a runtime error leaves the height of the
\* operand stack as it was.
C18_GetSuperKeepsHeight == Succeeded("OP_GET_SUPER") => stackTop = last.height

\* super.m has been evaluated in a method of an instance: the bound method is
\* on top, in the place of the receiver.
C18_Witness ==
  /\ Succeeded("OP_GET_SUPER") /\ stackTop = last.height - 1
  /\ IS_INSTANCE(VM, heap[AS_OBJ(stack[stackTop])].receiver)

\* ----------------------------------------------------- claims on the calls
\* The instruction last executed called a class.
ClassCalled ==
  last.op = "OP_CALL" /\ last.name # NULL /\ heap[last.name].type = "class"

\* The init method of the class called, or NULL.
Initializer == Callee(VM, OBJ_VAL(last.name))

\* The slot the callee was in.
CalleeSlot == last.height - last.chars[1]

\* C13: a call of a class that ends without a runtime error has put a new
\* instance of the class into the callee's slot; without an init method there
\* are no arguments and the instance is the call's result, otherwise the call
\* is a runtime error; with an init method a frame of the initializer has the
\* instance in its slot 0, and every OP_RETURN of such a frame, the implicit
\* one and the one of a bare return, leaves that instance as the call's result.
C13_ClassCallYieldsInstance ==
  /\ (ClassCalled /\ phase = "run") =>
       /\ IS_INSTANCE(VM, stack[CalleeSlot])
       /\ heap[AS_OBJ(stack[CalleeSlot])].klass = last.name
       /\ AS_OBJ(stack[CalleeSlot]) > last.value.v
       /\ IF Initializer = NULL
          THEN last.chars[1] = 0 /\ stackTop = CalleeSlot /\ Len(frames) = last.frameCount
          ELSE /\ Len(frames) = last.frameCount + 1
               /\ frames[Len(frames)].closure = Initializer
               /\ frames[Len(frames)].slots + 1 = CalleeSlot
               /\ frames[Len(frames)].instance = AS_OBJ(stack[CalleeSlot])
  /\ (ClassCalled /\ Initializer = NULL /\ last.chars[1] # 0) =>
       phase = "idle" /\ result = "runtime_error"
  /\ (last.op = "OP_RETURN" /\ last.name # NULL) =>
       /\ phase = "run"
       /\ stack[stackTop] = OBJ_VAL(last.name)
       /\ heap[last.name].type = "instance"

\* An initializer has returned through its bare return: the instance whose
\* field it set to true is the result of the call.
C13_Witness ==
  /\ last.op = "OP_RETURN" /\ last.name # NULL /\ phase = "run"
  /\ stack[stackTop] = OBJ_VAL(last.name)
  /\ \E e \in TableContents(heap[last.name].fields) : e[2] = BOOL_VAL(TRUE)

CallOpcodes == {"OP_CALL", "OP_INVOKE", "OP_SUPER_INVOKE"}

Returned == last.op = "OP_RETURN" /\ fault = "none" /\ last.frameCount > 1

ReturnedFromScript == last.op = "OP_RETURN" /\ fault = "none" /\ last.frameCount = 1

\* C21: after the OP_RETURN of a frame that is not the script's, the stack ends
\* one above the frame's slots with the return value on top, no upvalue still
\* points at or above the frame's slots, there is one frame less and the frame
\* on top is the caller's, as it was; the OP_RETURN of the script's frame
\* leaves the stack empty and interpret returns INTERPRET_OK.
C21_ReturnReplacesCall ==
  /\ Returned =>
       /\ phase = "run"
       /\ stackTop = last.chars[1] + 1
       /\ stack[stackTop] = last.value
       /\ \A u \in OpenUpvalues : heap[u].location < last.chars[1]
       /\ Len(frames) = last.frameCount - 1
       /\ frames[Len(frames)] \in last.before
  /\ ReturnedFromScript =>
       phase = "idle" /\ result = "ok" /\ stackTop = 0 /\ frames = <<>>

\* What holds of OP_RETURN in every run: the stack, the frames, and the upvalues
\* that are in the list vm.openUpvalues.
ReturnClosesListed ==
  /\ Returned =>
       /\ phase = "run"
       /\ stackTop = last.chars[1] + 1
       /\ stack[stackTop] = last.value
       /\ \A j \in 1..Len(UpvalueList(heap, openUpvalues)) :
             heap[UpvalueList(heap, openUpvalues)[j]].location < last.chars[1]
       /\ Len(frames) = last.frameCount - 1
       /\ frames[Len(frames)] \in last.before
  /\ ReturnedFromScript =>
       phase = "idle" /\ result = "ok" /\ stackTop = 0 /\ frames = <<>>

\* ---------------------------------------------------- claims on the receiver
\* The frames that run a method: entered through a bound method, OP_INVOKE,
\* OP_SUPER_INVOKE, or as the initializer of a class that was called.
MethodFrames == {i \in 1..Len(frames) : ~IS_NIL(frames[i].receiver)}

\* C23: slot 0 of every frame that runs a method holds the instance the method
\* was called on, from the call to the return of the frame.
C23_ReceiverInSlotZero ==
  fault = "none" =>
    \A i \in MethodFrames :
      /\ stack[frames[i].slots + 1] = frames[i].receiver
      /\ IS_INSTANCE(VM, frames[i].receiver)

\* A method entered through OP_SUPER_INVOKE is about to return, in a frame
\* above one entered through OP_INVOKE: both have the same instance in slot 0.
C23_Witness ==
  /\ phase = "run" /\ Len(frames) = Len(<<"script", "h", "m">>)
  /\ MethodFrames = {Len(frames) - 1, Len(frames)}
  /\ frames[Len(frames)].receiver = frames[Len(frames) - 1].receiver
  /\ stack[frames[Len(frames)].slots + 1] = frames[Len(frames)].receiver
  /\ Fetch(VM).op = "OP_RETURN" /\ last.op = "OP_CONSTANT"

\* -------------------------------------------------- claims on inheritance
Classes == {o \in 1..Len(heap) : heap[o].type = "class"}

\* The methods a class has by its declaration: its own, and those of the
\* superclass whose names it does not declare.
MethodsDeclared(klass) ==
  heap[klass].declared
    \union {e \in heap[klass].inherited : \A d \in heap[klass].declared : d[1] # e[1]}

\* C24: the method table of a class maps each name to the method the class
\* declares for it, else to the method its superclass had for it when
\* OP_INHERIT ran, and to nothing else; OP_INHERIT with a superclass that is
\* not a class is the runtime error "Superclass must be a class." and leaves
\* the methods of the subclass as they were.
C24_Inheritance ==
  /\ \A klass \in Classes :
       /\ TableContents(heap[klass].methods) = MethodsDeclared(klass)
       /\ \A e \in MethodsDeclared(klass) :
            tableGet(VM, ObjTable(klass, "methods"), e[1]) = [found |-> TRUE, value |-> e[2]]
  /\ (last.op = "OP_INHERIT" /\ ~IS_CLASS(VM, last.value)) =>
       /\ phase = "idle" /\ result = "runtime_error"
       /\ last.message = "Superclass must be a class."
       /\ TableContents(heap[last.name].methods) = last.before

\* The declaration of a class has ended that has a method of its own under a
\* name its superclass has a method for too: the table has its own.
C24_Witness ==
  /\ \E klass \in Classes :
       \E d \in heap[klass].declared : \E e \in heap[klass].inherited :
         /\ d[1] = e[1] /\ d[2] # e[2]
         /\ tableGet(VM, ObjTable(klass, "methods"), d[1]).value = d[2]
  /\ last.op = "OP_POP" /\ phase = "run"

\* ------------------------------------------- claims on OP_INVOKE as a call
BoundMethods(h) == {o \in 1..Len(h) : h[o].type = "boundMethod"}

\* OP_GET_PROPERTY name on the receiver under the arguments, then OP_CALL
\* argCount on what it leaves in the receiver's slot.
GetThenCall(s, name, argCount, gc) ==
  With(getProperty([s EXCEPT !.stackTop = @ - argCount], name, gc), LAMBDA got :
    IF ~got.r THEN got
    ELSE With([got.s EXCEPT !.stackTop = @ + argCount], LAMBDA s1 :
           callValue(s1, peek(s1, argCount), argCount, gc)))

\* The frames without the history field EnterMethod writes.
Bare(fs) == [i \in DOMAIN fs |-> [fs[i] EXCEPT !.receiver = NIL_VAL]]

\* The runtime errors of the two ways that report the same case.
SameCase(invoked, called) ==
  \/ invoked = called
  \/ invoked = "Only instances have methods." /\ called = "Only instances have properties."

PlainInvoke == last.op = "OP_INVOKE" /\ last.chars = <<0>>

\* C22: OP_INVOKE name argc leaves the call frames and the stack that
\* OP_GET_PROPERTY name on the receiver followed by OP_CALL argc leaves, or is
\* a runtime error in the same case as they are, and allocates no bound method.
C22_InvokeIsGetThenCall ==
  [][Running("OP_INVOKE") =>
       \E s \in {READ_BYTE(VM)} : \E argCount \in {Fetch(VM).b} :
         \E name \in {AS_OBJ(READ_CONSTANT(s, Fetch(VM).a))} :
           \A gc \in Collects : \E two \in {GetThenCall(s, name, argCount, gc)} :
             /\ BoundMethods(heap') = BoundMethods(heap)
             /\ IF two.r
                THEN /\ phase' = "run"
                     /\ Bare(frames') = Bare(two.s.frames)
                     /\ stackTop' = two.s.stackTop
                     /\ SubSeq(stack', 1, stackTop') = SubSeq(two.s.stack, 1, stackTop')
                ELSE /\ phase' = "idle" /\ result' = "runtime_error"
                     /\ SameCase(last'.message, two.message)]_vars

\* OP_INVOKE has called the function a field holds, on an instance whose class
\* has a method of the field's name.
C22_Witness ==
  /\ PlainInvoke /\ phase = "run" /\ last.defined
  /\ stack[frames[Len(frames)].slots + 1] = OBJ_VAL(frames[Len(frames)].closure)
  /\ \E o \in 1..Len(heap) :
       /\ heap[o].type = "instance"
       /\ tableGet(VM, ObjTable(o, "fields"), last.name).found
       /\ tableGet(VM, ObjTable(o, "fields"), last.name).value = stack[frames[Len(frames)].slots + 1]
       /\ tableGet(VM, ObjTable(heap[o].klass, "methods"), last.name).found

\* ------------------------------ SpecMemory: byte counts and collector steps
GC_HEAP_GROW_FACTOR == 2

\* sizeof on an LP64 build whose Value is a 16-byte tagged union.
SizeOf(type) ==
  CASE type = "function" -> 72
    [] type = "upvalue" -> 48
    [] type = "native" -> 24
    [] type = "Entry" -> 24
    [] type = "pointer" -> 8
    [] OTHER -> 40

\* The bytes the reallocate calls of freeObject(object) give back, in the order
\* of the calls: the arrays the object owns, then the object.
freeObjectSizes(object) ==
  CASE object.type = "string" -> <<Len(object.chars) + 1, SizeOf("string")>>
    [] object.type = "class" ->
         <<SizeOf("Entry") * object.methods.capacity, SizeOf("class")>>
    [] object.type = "instance" ->
         <<SizeOf("Entry") * object.fields.capacity, SizeOf("instance")>>
    [] object.type = "closure" ->
         <<SizeOf("pointer") * object.upvalueCount, SizeOf("closure")>>
    [] OTHER -> <<SizeOf(object.type)>>

RECURSIVE SumOf(_)
SumOf(sizes) == IF sizes = <<>> THEN 0 ELSE sizes[1] + SumOf(Tail(sizes))

\* What reallocate has counted for the VM s: its live objects and the entry
\* arrays of vm.globals and vm.strings.
Allocated(s) ==
  SumOf([o \in 1..Len(s.heap) |->
           IF IsLive(s.heap, o) THEN SumOf(freeObjectSizes(s.heap[o])) ELSE 0])
  + SizeOf("Entry") * (s.globals.capacity + s.strings.capacity)

\* k holds the counts reallocate reads and writes, and what the calls did:
\* started is whether the last call started a collection, nested whether a
\* growing call was made during a collection, reentered whether a collection
\* was started during a collection.
\* reallocate that tests the threshold before it adds the request.
reallocateTestFirst(k, oldSize, newSize, build) ==
  With(newSize > oldSize /\ (build \/ k.bytesAllocated > k.nextGC), LAMBDA starts :
    [k EXCEPT !.bytesAllocated = @ + newSize - oldSize,
              !.started = starts,
              !.nested = @ \/ (k.collecting /\ newSize > oldSize),
              !.reentered = @ \/ (k.collecting /\ starts)])

\* reallocate(pointer, oldSize, newSize), as far as the counts go; build is
\* whether the build collects at every growing request.
reallocateCounts(k, oldSize, newSize, build) ==
  With(k.bytesAllocated + newSize - oldSize, LAMBDA bytes :
    With(newSize > oldSize /\ (build \/ bytes > k.nextGC), LAMBDA starts :
      [k EXCEPT !.bytesAllocated = bytes,
                !.started = starts,
                !.nested = @ \/ (k.collecting /\ newSize > oldSize),
                !.reentered = @ \/ (k.collecting /\ starts)]))

\* The reallocate calls of sweep: FREE and FREE_ARRAY for each object freed.
RECURSIVE freeCounts(_, _, _)
freeCounts(k, sizes, build) ==
  IF sizes = <<>> THEN k
  ELSE With(<<reallocateCounts(k, sizes[1], 0, build), Tail(sizes)>>,
            LAMBDA n : freeCounts(n[1], n[2], build))

\* markObject's growth of the gray stack for one push at grayCount = count,
\* through reallocate (GROW_ARRAY).
growGrayStackCounted(g, count, build) ==
  IF g.grayCapacity < count + 1
  THEN With(GROW_CAPACITY(g.grayCapacity), LAMBDA capacity :
         [grayCapacity |-> capacity,
          k |-> reallocateCounts(g.k, SizeOf("pointer") * g.grayCapacity,
                                 SizeOf("pointer") * capacity, build)])
  ELSE g

\* markObject's growth of the gray stack for one push at grayCount = count:
\* the system's realloc, which counts nothing.
growGrayStack(g, count, build) ==
  IF g.grayCapacity < count + 1
  THEN [g EXCEPT !.grayCapacity = GROW_CAPACITY(@)]
  ELSE g

\* The pushes that take grayCount from count to upto.
RECURSIVE growGrayStackTo(_, _, _, _)
growGrayStackTo(g, count, upto, build) ==
  IF count >= upto THEN g
  ELSE With(<<growGrayStack(g, count, build), count + 1>>,
            LAMBDA n : growGrayStackTo(n[1], n[2], upto, build))

\* The end of collectGarbage.
collectGarbageCounts(k) ==
  [k EXCEPT !.nextGC = k.bytesAllocated * GC_HEAP_GROW_FACTOR]

\* The objects of the heap the specification starts from: a class K with a
\* method m, InstanceNames instances of K, a bound method of the first
\* instance, and the closed upvalue of the method's closure.
InstanceNames == <<"first", "second">>

GraphNodes == 1..(Len(InstanceNames) + 2)

RECURSIVE newInstances(_, _, _)
newInstances(c, klass, n) ==
  IF n = 0 THEN c
  ELSE With(newInstance(c.s, klass, FALSE), LAMBDA i :
         With(<<[s |-> i.s, ps |-> Append(c.ps, i.p)], n - 1>>,
              LAMBDA m : newInstances(m[1], klass, m[2])))

\* instance.a = value, as OP_SET_PROPERTY stores it.
RECURSIVE setFields(_, _, _, _, _)
setFields(s, nodes, name, targets, i) ==
  IF i > Len(InstanceNames) THEN s
  ELSE With(<<IF targets[i] = 0 THEN s
              ELSE tableSet(s, ObjTable(nodes[i], "fields"), name,
                            OBJ_VAL(nodes[targets[i]]), FALSE).s,
              i + 1>>,
            LAMBDA n : setFields(n[1], nodes, name, targets, n[2]))

RECURSIVE pushAll(_, _, _)
pushAll(s, ptrs, i) ==
  IF i > Len(ptrs) THEN s
  ELSE With(<<push(s, OBJ_VAL(ptrs[i])), i + 1>>, LAMBDA n : pushAll(n[1], ptrs, n[2]))

\* The objects, before a field is set: s is the VM, nodes the instances and
\* the bound method, upvalue the upvalue and name the string "a".
GraphObjects ==
  With(copyString(initVM, STR_K, NoGC), LAMBDA k :
  With(copyString(k.s, STR_a, NoGC), LAMBDA a :
  With(copyString(a.s, STR_m, NoGC), LAMBDA m :
  With(newClass(m.s, k.p, FALSE), LAMBDA klass :
  With(newFunction(klass.s, FALSE), LAMBDA f :
  With([f.s EXCEPT !.heap[f.p].upvalueCount = 1], LAMBDA s1 :
  With(newClosure(s1, f.p, <<FALSE, FALSE>>), LAMBDA closure :
  With(tableSet(closure.s, ObjTable(klass.p, "methods"), m.p, OBJ_VAL(closure.p),
                FALSE).s, LAMBDA s2 :
  With(newInstances([s |-> s2, ps |-> <<>>], klass.p, Len(InstanceNames)), LAMBDA made :
  With(newBoundMethod(made.s, OBJ_VAL(made.ps[1]), closure.p, FALSE), LAMBDA bound :
  With(allocateObject(bound.s, [ObjUpvalue(0, NIL_VAL, 0) EXCEPT !.location = CLOSED],
                      FALSE), LAMBDA upvalue :
  With([upvalue.s EXCEPT !.heap[closure.p].upvalues = <<upvalue.p>>], LAMBDA s3 :
    [s |-> pushAll(s3, <<bound.p>> \o made.ps, 1), nodes |-> made.ps \o <<bound.p>>,
     upvalue |-> upvalue.p, name |-> a.p]))))))))))))

\* targets[i] is the node field a of instance i holds, targets of the last
\* node the one the upvalue holds; 0 is none.  The bound method and the
\* instances are on the stack.
Graph(targets) ==
  With(GraphObjects, LAMBDA g :
    With(IF targets[Len(g.nodes) + 1] = 0 THEN NIL_VAL
         ELSE OBJ_VAL(g.nodes[targets[Len(g.nodes) + 1]]), LAMBDA cell :
      With([g.s EXCEPT !.heap[g.upvalue].closed = cell, !.heap[g.upvalue].cell = cell],
           LAMBDA s1 : setFields(s1, g.nodes, g.name, targets, 1))))

\* The sizes the program asks reallocate for, for its block.
BlockSizes == {0, 16, 512 * 1024, 1024 * 1024, 4 * 1024 * 1024}

\* The last call of reallocate by the program: its sizes, the counts it found
\* and whether it started a collection.
NoRequest ==
  [oldSize |-> 0, newSize |-> 0, bytesAllocated |-> 0, nextGC |-> 0, started |-> FALSE]

MemInit ==
  /\ \E targets \in [GraphNodes -> 0..(Len(InstanceNames) + 1)] : Holds(Graph(targets))
  /\ Idle /\ NoTable /\ NoSource /\ stress = FALSE
  /\ bytesAllocated = Allocated(VM) /\ nextGC = 1024 * 1024
  /\ collector = [pc |-> "idle", grayCapacity |-> 0, pushed |-> <<>>,
                  nested |-> FALSE, reentered |-> FALSE, collections |-> 0,
                  ended |-> FALSE, block |-> 0, request |-> NoRequest]

\* The counts as reallocate finds them.
Counts ==
  [bytesAllocated |-> bytesAllocated, nextGC |-> nextGC,
   collecting |-> collector.pc # "idle", started |-> FALSE,
   nested |-> collector.nested, reentered |-> collector.reentered]

\* The program resizes its block: reallocate(block, oldSize, newSize).  When
\* the call starts a collection, the collection's steps follow.
MemReallocate ==
  /\ collector.pc = "idle"
  /\ \E newSize \in BlockSizes :
       \E k \in {reallocateCounts(Counts, collector.block, newSize, stress)} :
         /\ bytesAllocated' = k.bytesAllocated /\ nextGC' = k.nextGC
         /\ collector' = [collector EXCEPT
              !.pc = IF k.started THEN "markRoots" ELSE "idle",
              !.nested = k.nested, !.reentered = k.reentered,
              !.block = newSize, !.pushed = <<>>, !.ended = FALSE,
              !.request = [oldSize |-> collector.block, newSize |-> newSize,
                           bytesAllocated |-> bytesAllocated, nextGC |-> nextGC,
                           started |-> k.started]]
  /\ UNCHANGED <<vmvars, runvars, tablevars, compvars>>

\* The program pops a value.
MemPop ==
  /\ collector.pc = "idle" /\ stackTop > 0
  /\ Commit(pop(VM))
  /\ UNCHANGED <<memvars, runvars, tablevars, compvars>>

\* A step of the collection ends: the VM is s, whose gray stack held count
\* objects before the step's pushes, and collectGarbage goes on at pc.
Collected(s, count, pc) ==
  \E g \in {growGrayStackTo([grayCapacity |-> collector.grayCapacity, k |-> Counts],
                            count, Len(s.grayStack), stress)} :
    /\ Commit(s)
    /\ bytesAllocated' = g.k.bytesAllocated /\ nextGC' = g.k.nextGC
    /\ collector' = [collector EXCEPT
         !.pc = pc, !.grayCapacity = g.grayCapacity,
         !.nested = g.k.nested, !.reentered = g.k.reentered,
         !.pushed = @ \o SubSeq(s.grayStack, count + 1, Len(s.grayStack))]
    /\ UNCHANGED <<runvars, tablevars, compvars>>

GcMarkRoots ==
  /\ collector.pc = "markRoots"
  /\ \E s \in {markRoots(VM)} : Collected(s, Len(grayStack), "traceReferences")

\* One turn of the loop of traceReferences.
GcBlacken ==
  /\ collector.pc = "traceReferences" /\ Len(grayStack) > 0
  /\ \E s0 \in {[VM EXCEPT !.grayStack = SubSeq(@, 1, Len(@) - 1)]} :
       \E s \in {blackenObject(s0, grayStack[Len(grayStack)])} :
         Collected(s, Len(s0.grayStack), "traceReferences")

\* traceReferences returns, and tableRemoveWhite runs.
GcRemoveWhite ==
  /\ collector.pc = "traceReferences" /\ Len(grayStack) = 0
  /\ \E s \in {tableRemoveWhite(VM, VmTable("strings"))} : Collected(s, Len(grayStack), "sweep")

\* The sizes sweep frees, object by object in the order of vm.objects.
RECURSIVE sweepSizes(_, _)
sweepSizes(s, i) ==
  IF i > Len(s.objects) THEN <<>>
  ELSE With(s.heap[s.objects[i]], LAMBDA object :
         With(<<IF object.isMarked THEN <<>> ELSE freeObjectSizes(object), i + 1>>,
              LAMBDA n : n[1] \o sweepSizes(s, n[2])))

\* sweep, and the end of collectGarbage.
GcSweep ==
  /\ collector.pc = "sweep"
  /\ \E s \in {sweep(VM)} :
       \E k \in {collectGarbageCounts(freeCounts(Counts, sweepSizes(VM, 1), stress))} :
         /\ Commit(s)
         /\ bytesAllocated' = k.bytesAllocated /\ nextGC' = k.nextGC
         /\ collector' = [collector EXCEPT
              !.pc = "idle", !.nested = k.nested, !.reentered = k.reentered,
              !.collections = @ + 1, !.ended = TRUE]
  /\ UNCHANGED <<runvars, tablevars, compvars>>

MemNext ==
  \/ MemReallocate
  \/ MemPop
  \/ GcMarkRoots
  \/ GcBlacken
  \/ GcRemoveWhite
  \/ GcSweep

SpecMemory == MemInit /\ [][MemNext]_vars

\* The loops of collectGarbage run to their end once it is called.
SpecMemoryFair ==
  SpecMemory /\ WF_vars(GcMarkRoots) /\ WF_vars(GcBlacken) /\ WF_vars(GcRemoveWhite)
             /\ WF_vars(GcSweep)

\* ------------------------------------------------ claims on the byte counts
Requested == collector.request

\* C25: a call of reallocate starts a collection exactly when it asks for more
\* than the block had and vm.bytesAllocated, with the request added, is above
\* vm.nextGC, so never when it frees or shrinks; vm.nextGC is 1 MiB until the
\* first collection and twice vm.bytesAllocated when a collection ends.
C25_CollectionThreshold ==
  /\ collector.collections = 0 => nextGC = 1024 * 1024
  /\ Requested.started <=>
       /\ Requested.newSize > Requested.oldSize
       /\ Requested.bytesAllocated + Requested.newSize - Requested.oldSize
            > Requested.nextGC
  /\ Requested.newSize <= Requested.oldSize => ~Requested.started
  /\ Requested.started <=> (collector.pc # "idle" \/ collector.ended)
  /\ collector.ended => nextGC = 2 * bytesAllocated

\* The second collection has ended: it was started by a request that took
\* vm.bytesAllocated from below vm.nextGC to above it.
C25_Witness ==
  /\ collector.ended /\ collector.collections = 2
  /\ Requested.bytesAllocated <= Requested.nextGC
  /\ nextGC > 2 * Requested.newSize

\* C26: no growing call of reallocate is made, and collectGarbage is not
\* entered, between the start of markRoots and the end of sweep.
C26_NoCollectionInsideCollection == ~collector.nested /\ ~collector.reentered

\* A collection has ended that grew the gray stack, deleted a string from
\* vm.strings and freed objects.
C26_Witness ==
  /\ collector.ended /\ collector.grayCapacity >= TABLE_MIN_CAPACITY
  /\ \E o \in 1..Len(heap) : heap[o] = FREED
  /\ \E i \in 1..strings.capacity :
       strings.entries[i].key = NULL /\ strings.entries[i].value # NIL_VAL
  /\ bytesAllocated < Requested.bytesAllocated + Requested.newSize - Requested.oldSize

\* --------------------------------------------------- claims on the tracing
Marked == {o \in 1..Len(heap) : IsLive(heap, o) /\ heap[o].isMarked}

Pushes(o) == Cardinality({i \in DOMAIN collector.pushed : collector.pushed[i] = o})

\* traceReferences has found the gray stack empty.
Traced == collector.pc = "traceReferences" /\ Len(grayStack) = 0

TracedInvariant ==
  /\ \A o \in 1..Len(heap) : Pushes(o) <= 1
  /\ Traced =>
       /\ \A o \in Marked : Refs(VM, o) \ {NULL} \subseteq Marked
       /\ Marked = Reachable(VM)

\* C27: in a collection each object is pushed on the gray stack at most once;
\* traceReferences ends, on cyclic graphs too, and when the gray stack is
\* empty no marked object refers to an unmarked one and the marked objects are
\* the ones reachable from the roots.
C27_TraceTerminates ==
  /\ []TracedInvariant
  /\ (collector.pc = "traceReferences") ~> Traced

\* The gray stack is empty after a trace through the cycle of an instance and
\* its bound method, which the instance's field holds; the other instance is
\* not on the stack and was left unmarked.
C27_Witness ==
  /\ Traced /\ stackTop = Len(<<"bound method", "first">>)
  /\ \E i, j \in Marked :
       /\ heap[i].type = "instance" /\ heap[j].type = "boundMethod"
       /\ i \in Refs(VM, j) /\ j \in Refs(VM, i)
  /\ \E o \in 1..Len(heap) : heap[o].type = "instance" /\ o \notin Marked

\* ---------------------------- SpecParse: compile errors and synchronize
MaxTokens == 4    \* tokens of a source text of SpecParse

SynchronizeAt ==
  {"TOKEN_CLASS", "TOKEN_FUN", "TOKEN_VAR", "TOKEN_FOR", "TOKEN_IF", "TOKEN_WHILE",
   "TOKEN_PRINT", "TOKEN_RETURN"}

\* The loop of synchronize.
RECURSIVE synchronizeLoop(_)
synchronizeLoop(c) ==
  IF c.current.type = "TOKEN_EOF" THEN c
  ELSE IF c.previous.type = "TOKEN_SEMICOLON" THEN c
  ELSE IF c.current.type \in SynchronizeAt THEN c
  ELSE With(advance(c), LAMBDA c1 : synchronizeLoop(c1))

\* synchronize, on the compiler with its tokens.
synchronizeCompiler(c) == synchronizeLoop([c EXCEPT !.parser = synchronize(@)])

\* The tokens the scanner hands out for the source texts of SpecParse.
ParseAlphabet ==
  {Token("TOKEN_NUMBER", 1), Token("TOKEN_PLUS", 0), Token("TOKEN_SEMICOLON", 0),
   Token("TOKEN_PRINT", 0), Token("TOKEN_RETURN", 0), Token("TOKEN_ERROR", 0)}

TokenStreams == UNION {[1..n -> ParseAlphabet] : n \in 1..MaxTokens}

\* The synchronization points so far: how many, the number of errors reported
\* and the token the parser was at when the last one began, and whether the
\* last step was a synchronize.
NoSynchronize == [syncs |-> 0, reported |-> 0, from |-> 0, synced |-> FALSE]

\* The tokens that become parser.current, and the place of parser.current
\* among them.
Scanned(tokens) == SelectSeq(tokens, LAMBDA token : token.type # "TOKEN_ERROR")

Position(c) ==
  IF c.next - 1 > Len(c.tokens) THEN Len(Scanned(c.tokens)) + 1
  ELSE Len(Scanned(SubSeq(c.tokens, 1, c.next - 1)))

\* compile(source), before its first advance.
ParseInit ==
  /\ Holds(initVM) /\ NoTable /\ NoCounts /\ stress = FALSE
  /\ prog = 0 /\ result = "none" /\ runs = 0 /\ last = Saw("none")
  /\ phase = "compile" /\ parser = NoError
  /\ source \in TokenStreams
  /\ current = [CompilerAt("TYPE_SCRIPT", source, parser) EXCEPT
                  !.next = 1, !.current = Token("TOKEN_EOF", 0)]
  /\ outcome = NoSynchronize

\* The compiler is c after a step of compile that goes on at ph.
Parsed(c, ph) ==
  /\ current' = c /\ parser' = c.parser /\ phase' = ph
  /\ UNCHANGED <<vmvars, stress, prog, runs, last, tablevars, source, memvars>>

\* The advance of compile that reads the first token.
ParseAdvance ==
  /\ phase = "compile"
  /\ \E c \in {advance(current)} : Parsed(c, "declaration")
  /\ UNCHANGED <<result, outcome>>

\* declaration, up to its test of panicMode.
ParseDeclaration ==
  /\ phase = "declaration" /\ ~check(current, "TOKEN_EOF")
  /\ \E c \in {statement(current)} :
       Parsed(c, IF c.parser.panicMode THEN "synchronize" ELSE "declaration")
  /\ outcome' = [outcome EXCEPT !.synced = FALSE]
  /\ UNCHANGED result

\* The synchronize at the end of a declaration.
ParseSynchronize ==
  /\ phase = "synchronize"
  /\ \E c \in {synchronizeCompiler(current)} : Parsed(c, "declaration")
  /\ outcome' = [syncs |-> outcome.syncs + 1, reported |-> Len(parser.reported),
                 from |-> Position(current), synced |-> TRUE]
  /\ UNCHANGED result

\* match(TOKEN_EOF) ends the loop, and compile returns.
ParseEnd ==
  /\ phase = "declaration" /\ check(current, "TOKEN_EOF")
  /\ \E c \in {emitReturn(advance(current))} :
       /\ Parsed(c, "idle")
       /\ result' = IF compileResult(c.parser, 1) = NULL THEN "compile_error" ELSE "ok"
  /\ outcome' = [outcome EXCEPT !.synced = FALSE]

ParseNext ==
  \/ ParseAdvance
  \/ ParseDeclaration
  \/ ParseSynchronize
  \/ ParseEnd

SpecParse == ParseInit /\ [][ParseNext]_vars

\* ----------------------------------------------- claims on compile errors
TokenAt(q) ==
  IF q \in 1..Len(Scanned(source)) THEN Scanned(source)[q].type ELSE "TOKEN_EOF"

\* Where synchronize returns: at the end of the text, just after a semicolon,
\* or before a token that begins a statement.
Boundary(q) ==
  \/ TokenAt(q) = "TOKEN_EOF"
  \/ q > 1 /\ TokenAt(q - 1) = "TOKEN_SEMICOLON"
  \/ TokenAt(q) \in SynchronizeAt

FirstBoundary(q) ==
  CHOOSE r \in q..(Len(Scanned(source)) + 1) :
    Boundary(r) /\ \A earlier \in q..(r - 1) : ~Boundary(earlier)

OneErrorPerSynchronize ==
  /\ Len(parser.reported) - outcome.reported <= 1
  /\ outcome.synced => Position(current) = FirstBoundary(outcome.from)

ErrorsSuppressed ==
  /\ parser.panicMode /\ phase # "synchronize" => parser'.reported = parser.reported
  /\ parser.hadError => parser'.hadError

\* C28: after errorAt has reported an error nothing more is reported until
\* synchronize has cleared panicMode, so at most one error is reported from
\* one synchronize to the next; synchronize returns at the first token that is
\* at the end of the text, follows a semicolon or begins a statement; and
\* hadError stays set once it is set.
C28_PanicMode == []OneErrorPerSynchronize /\ [][ErrorsSuppressed]_vars

\* "+ + ; +": the first declaration reports one error and drops the next,
\* synchronize skips to the semicolon, the second declaration reports again.
C28_Witness ==
  /\ phase = "idle" /\ result = "compile_error" /\ outcome.syncs = 2
  /\ parser.reported = <<"Expect expression.", "Expect expression.">>
  /\ Len(source) = MaxTokens /\ source[3].type = "TOKEN_SEMICOLON"
  /\ source[1].type = "TOKEN_PLUS" /\ source[2].type = "TOKEN_PLUS"

\* ------------------------------- SpecScope: locals, scopes and upvalues
\* The compilers of the functions being compiled are a chain, the script's
\* first and `current` last; each one's enclosing compiler is the one before it.
beginScope(c) == [c EXCEPT !.scopeDepth = @ + 1]

\* The loop of endScope with OP_POP for every local, captured or not.
RECURSIVE endScopePops(_)
endScopePops(c) ==
  IF Len(c.locals) > 0 /\ c.locals[Len(c.locals)].depth > c.scopeDepth
  THEN With(emitByte(c, "OP_POP"), LAMBDA c1 :
         endScopePops([c1 EXCEPT !.locals = SubSeq(@, 1, Len(@) - 1)]))
  ELSE c

\* The loop of endScope.
RECURSIVE endScopeLoop(_)
endScopeLoop(c) ==
  IF Len(c.locals) > 0 /\ c.locals[Len(c.locals)].depth > c.scopeDepth
  THEN With(emitByte(c, IF c.locals[Len(c.locals)].isCaptured
                        THEN "OP_CLOSE_UPVALUE" ELSE "OP_POP"), LAMBDA c1 :
         endScopeLoop([c1 EXCEPT !.locals = SubSeq(@, 1, Len(@) - 1)]))
  ELSE c

\* endScope that forgets the block's locals and emits nothing for them.
endScopeForgets(c) ==
  [c EXCEPT !.scopeDepth = @ - 1,
            !.locals = SelectSeq(@, LAMBDA local : local.depth <= c.scopeDepth - 1)]

endScope(c) == endScopeLoop([c EXCEPT !.scopeDepth = @ - 1])

\* The loop of declareVariable, from locals[i] down.
RECURSIVE declareLoop(_, _, _)
declareLoop(c, name, i) ==
  IF i < 1 THEN c
  ELSE IF c.locals[i].depth # -1 /\ c.locals[i].depth < c.scopeDepth THEN c
  ELSE With(IF c.locals[i].name = name
            THEN error(c, "Already a variable with this name in this scope.")
            ELSE c, LAMBDA c1 :
         declareLoop(c1, name, i - 1))

declareVariable(c, name) ==
  IF c.scopeDepth = 0 THEN c
  ELSE With(declareLoop(c, name, Len(c.locals)), LAMBDA c1 : addLocal(c1, name))

\* resolveUpvalue(compiler, name) for the n-th compiler of the chain cs, with
\* the parser p.
RECURSIVE resolveUpvalue(_, _, _, _)
resolveUpvalue(cs, p, n, name) ==
  IF n = 1 THEN [cs |-> cs, p |-> p, arg |-> -1]
  ELSE With(resolveLocal([cs[n - 1] EXCEPT !.parser = p], name), LAMBDA local :
    IF local.arg # -1
    THEN With(addUpvalue([cs[n] EXCEPT !.parser = local.c.parser],
                         local.arg % UINT8_COUNT, TRUE), LAMBDA made :
           [cs |-> [cs EXCEPT ![n - 1] = [local.c EXCEPT
                                             !.locals[local.arg + 1].isCaptured = TRUE],
                              ![n] = made.c],
            p |-> made.c.parser, arg |-> made.arg])
    ELSE With(resolveUpvalue(cs, local.c.parser, n - 1, name), LAMBDA upvalue :
           IF upvalue.arg # -1
           THEN With(addUpvalue([upvalue.cs[n] EXCEPT !.parser = upvalue.p],
                                upvalue.arg % UINT8_COUNT, FALSE), LAMBDA made :
                  [cs |-> [upvalue.cs EXCEPT ![n] = made.c],
                   p |-> made.c.parser, arg |-> made.arg])
           ELSE [cs |-> upvalue.cs, p |-> upvalue.p, arg |-> -1]))

\* variable: namedVariable for a name that is read, in the last compiler of cs.
variable(cs, p, name) ==
  With(Len(cs), LAMBDA n :
    With(resolveLocal([cs[n] EXCEPT !.parser = p], name), LAMBDA local :
      IF local.arg # -1
      THEN With(emitBytes(local.c, "OP_GET_LOCAL", local.arg % UINT8_COUNT), LAMBDA c :
             [cs |-> [cs EXCEPT ![n] = c], p |-> c.parser])
      ELSE With(resolveUpvalue(cs, local.c.parser, n, name), LAMBDA upvalue :
             IF upvalue.arg # -1
             THEN With(emitBytes([upvalue.cs[n] EXCEPT !.parser = upvalue.p],
                                 "OP_GET_UPVALUE", upvalue.arg % UINT8_COUNT), LAMBDA c :
                    [cs |-> [upvalue.cs EXCEPT ![n] = c], p |-> c.parser])
             ELSE With(makeConstant([upvalue.cs[n] EXCEPT !.parser = upvalue.p], name),
                       LAMBDA m :
                    With(emitBytes(m.c, "OP_GET_GLOBAL", m.constant % UINT8_COUNT),
                         LAMBDA c :
                      [cs |-> [upvalue.cs EXCEPT ![n] = c], p |-> c.parser])))))

\* ------------------------------------------- the parser's rules, continued
\* The chunk is kept per instruction, so the operand of a jump counts
\* instructions: the distance from the instruction after the jump to its
\* target.  The placeholder 0xffff is UINT16_MAX.
UINT16_MAX == 65535

\* [c, offset]: offset is where the jump instruction is, to be patched.
emitJump(c, instruction) ==
  With(emitBytes(c, instruction, UINT16_MAX), LAMBDA c1 :
    [c |-> c1, offset |-> Len(c1.code)])

patchJump(c, offset) ==
  With(Len(c.code) - offset, LAMBDA jump :
    With(IF jump > UINT16_MAX THEN error(c, "Too much code to jump over.") ELSE c,
         LAMBDA c1 : [c1 EXCEPT !.code[offset].a = jump]))

\* loopStart is the number of instructions emitted before the loop.
emitLoop(c, loopStart) ==
  With(Len(c.code) + 1 - loopStart, LAMBDA offset :
    With(IF offset > UINT16_MAX THEN error(c, "Loop body too large.") ELSE c,
         LAMBDA c1 : emitBytes(c1, "OP_LOOP", offset)))

\* The ObjString copyString makes of the characters, as a constant of the
\* chunk: it is interned when the chunk is installed.
StringOf(chars) == [t |-> "str", v |-> chars]

identifierConstant(c, name) == makeConstant(c, StringOf(name))

\* What namedVariable finds for the name: [c, kind, arg], where kind is
\* "local", "upvalue" or "global".  The compilers around c are c.enclosing,
\* outermost first.
resolveName(c, name) ==
  With(resolveLocal(c, name), LAMBDA local :
    IF local.arg # -1 THEN [c |-> local.c, kind |-> "local", arg |-> local.arg]
    ELSE With(Len(c.enclosing) + 1, LAMBDA n :
      With(resolveUpvalue(c.enclosing \o <<[local.c EXCEPT !.enclosing = <<>>]>>,
                          local.c.parser, n, name), LAMBDA upvalue :
        With([upvalue.cs[n] EXCEPT !.parser = upvalue.p,
                                   !.enclosing = SubSeq(upvalue.cs, 1, n - 1)], LAMBDA c1 :
          IF upvalue.arg # -1 THEN [c |-> c1, kind |-> "upvalue", arg |-> upvalue.arg]
          ELSE With(identifierConstant(c1, name), LAMBDA m :
                 [c |-> m.c, kind |-> "global", arg |-> m.constant])))))

getOp(kind) ==
  CASE kind = "local" -> "OP_GET_LOCAL"
    [] kind = "upvalue" -> "OP_GET_UPVALUE"
    [] kind = "global" -> "OP_GET_GLOBAL"

setOp(kind) ==
  CASE kind = "local" -> "OP_SET_LOCAL"
    [] kind = "upvalue" -> "OP_SET_UPVALUE"
    [] kind = "global" -> "OP_SET_GLOBAL"

\* namedVariable for the name of a token, which may be assigned to.
namedVariableAssign(c, name, canAssign) ==
  With(resolveName(c, name), LAMBDA found :
    IF canAssign /\ check(found.c, "TOKEN_EQUAL")
    THEN With(expression(advance(found.c)), LAMBDA c1 :
           emitBytes(c1, setOp(found.kind), found.arg % UINT8_COUNT))
    ELSE emitBytes(found.c, getOp(found.kind), found.arg % UINT8_COUNT))

\* variable(canAssign)
variableRule(c, canAssign) == namedVariableAssign(c, c.previous.value, canAssign)

this_(c, canAssign) ==
  IF c.currentClass = <<>> THEN error(c, "Can't use 'this' outside of a class.")
  ELSE variableRule(c, FALSE)

grouping(c, canAssign) ==
  With(expression(c), LAMBDA c1 :
    consume(c1, "TOKEN_RIGHT_PAREN", "Expect ')' after expression."))

\* The do-while of argumentList after n arguments: [c, argCount].
RECURSIVE argumentListLoop(_, _)
argumentListLoop(c, n) ==
  With(expression(c), LAMBDA c1 :
    With(argument([c1 EXCEPT !.argCount = n]), LAMBDA c2 :
      IF check(c2, "TOKEN_COMMA") THEN argumentListLoop(advance(c2), c2.argCount)
      ELSE [c |-> c2, argCount |-> c2.argCount]))

argumentList(c) ==
  With(IF ~check(c, "TOKEN_RIGHT_PAREN") THEN argumentListLoop(c, 0)
       ELSE [c |-> c, argCount |-> 0], LAMBDA a :
    [c |-> [consume(a.c, "TOKEN_RIGHT_PAREN", "Expect ')' after arguments.")
              EXCEPT !.argCount = c.argCount],
     argCount |-> a.argCount])

\* call(canAssign)
callRule(c, canAssign) ==
  With(argumentList(c), LAMBDA a : emitBytes(a.c, "OP_CALL", a.argCount))

dot(c, canAssign) ==
  With(consume(c, "TOKEN_IDENTIFIER", "Expect property name after '.'."), LAMBDA c1 :
    With(identifierConstant(c1, c1.previous.value), LAMBDA name :
      IF canAssign /\ check(name.c, "TOKEN_EQUAL")
      THEN With(expression(advance(name.c)), LAMBDA c2 :
             emitBytes(c2, "OP_SET_PROPERTY", name.constant))
      ELSE IF check(name.c, "TOKEN_LEFT_PAREN")
      THEN With(argumentList(advance(name.c)), LAMBDA a :
             [a.c EXCEPT !.code = Append(@, Instr2("OP_INVOKE", name.constant, a.argCount))])
      ELSE emitBytes(name.c, "OP_GET_PROPERTY", name.constant)))

\* and_ that leaves the left operand under the right one.
andKeepsLeft(c, canAssign) ==
  With(emitJump(c, "OP_JUMP_IF_FALSE"), LAMBDA endJump :
    With(parsePrecedence(endJump.c, PREC_AND), LAMBDA c2 :
      patchJump(c2, endJump.offset)))

and_(c, canAssign) ==
  With(emitJump(c, "OP_JUMP_IF_FALSE"), LAMBDA endJump :
    With(emitByte(endJump.c, "OP_POP"), LAMBDA c1 :
      With(parsePrecedence(c1, PREC_AND), LAMBDA c2 :
        patchJump(c2, endJump.offset))))

or_(c, canAssign) ==
  With(emitJump(c, "OP_JUMP_IF_FALSE"), LAMBDA elseJump :
    With(emitJump(elseJump.c, "OP_JUMP"), LAMBDA endJump :
      With(patchJump(endJump.c, elseJump.offset), LAMBDA c1 :
        With(emitByte(c1, "OP_POP"), LAMBDA c2 :
          With(parsePrecedence(c2, PREC_OR), LAMBDA c3 :
            patchJump(c3, endJump.offset))))))

\* How many locals the texts declare in a function, how many blocks they open
\* inside one another, and how many compilers they nest.
MaxLocals == 3

MaxBlocks == 2

MaxNesting == 4

ScopeNames == {<<97>>, <<98>>}

\* What the text has declared: for each function being compiled its open
\* scopes, innermost last, and in each scope its declarations in order, each
\* with the stack slot it got.  The script's outermost scope is not kept,
\* its variables are globals.
Declares(name, slot) == [name |-> name, slot |-> slot]

Undeclared == Declares(<<>>, -1)

RECURSIVE Declarations(_)
Declarations(scopes) ==
  IF scopes = <<>> THEN 0 ELSE Len(scopes[1]) + Declarations(Tail(scopes))

\* The declaration a name stands for in these scopes: the last one of the
\* name in the innermost scope that has one.
RECURSIVE Lookup(_, _)
Lookup(scopes, name) ==
  IF scopes = <<>> THEN Undeclared
  ELSE With(scopes[Len(scopes)], LAMBDA scope :
    With({i \in 1..Len(scope) : scope[i].name = name}, LAMBDA found :
      IF found # {} THEN scope[CHOOSE i \in found : \A j \in found : j <= i]
      ELSE Lookup(SubSeq(scopes, 1, Len(scopes) - 1), name)))

Declare(scopes, name) ==
  IF scopes = <<>> THEN scopes
  ELSE [scopes EXCEPT ![Len(scopes)] = Append(@, Declares(name, Declarations(scopes) + 1))]

\* A step of the compiler: what it compiled, the instruction it emitted last,
\* the errors it reported and whether an error had been met when it ended.
Compiled(op, name, read, c, p) ==
  [op |-> op, name |-> name, read |-> read, reported |-> p.reported,
   hadError |-> p.hadError,
   instr |-> IF c.code = <<>> THEN Instr("none", 0) ELSE c.code[Len(c.code)]]

\* The chunks and the messages of earlier steps are not kept: nothing that
\* declares or resolves a variable reads them.
NoChunk(c) == [c EXCEPT !.code = <<>>, !.constants = <<>>, !.parser = NoError]

\* The n-th compiler of the chain, at work with the parser.
Compiler(n) == [current[n] EXCEPT !.parser = parser]

\* declaration ends: if (parser.panicMode) synchronize(), at a ';'.
endDeclaration(p) == IF p.panicMode THEN synchronize(p) ELSE p

\* The texts of a specification: the limits they keep to.
Texts(locals, blocks, nesting) == [locals |-> locals, blocks |-> blocks, nesting |-> nesting]

ScopeStart(texts) ==
  /\ Holds(initVM) /\ NoTable /\ NoCounts /\ stress = FALSE
  /\ prog = 0 /\ result = "none" /\ runs = 0 /\ source = texts
  /\ phase = "statement" /\ parser = NoError
  /\ current = <<NoChunk(CompilerAt("TYPE_SCRIPT", <<Token("TOKEN_EOF", 0)>>, NoError))>>
  /\ last = [op |-> "none", name |-> <<>>, read |-> <<>>, reported |-> <<>>,
             hadError |-> FALSE, instr |-> Instr("none", 0)]
  /\ outcome = <<<<>>>>

\* A script with blocks inside one another.
ScopeInit == ScopeStart(Texts(MaxLocals, MaxBlocks, 1))

ScopeStep(cs, p, op, name, read) ==
  /\ current' = [i \in 1..Len(cs) |-> NoChunk(cs[i])]
  /\ last' = Compiled(op, name, read, cs[Len(cs)], p)
  /\ parser' = [p EXCEPT !.reported = <<>>]
  /\ UNCHANGED <<vmvars, stress, phase, prog, result, runs, tablevars, source, memvars>>

\*   {
ScopeBegin ==
  /\ Len(outcome[Len(outcome)]) < source.blocks + (IF Len(outcome) = 1 THEN 0 ELSE 1)
  /\ \E n \in {Len(current)} : \E c \in {beginScope(Compiler(n))} :
       ScopeStep([current EXCEPT ![n] = c], c.parser, "begin", <<>>, <<>>)
  /\ outcome' = [outcome EXCEPT ![Len(outcome)] = Append(@, <<>>)]

\*   }   of a block
ScopeEnd ==
  /\ Len(outcome[Len(outcome)]) > (IF Len(outcome) = 1 THEN 0 ELSE 1)
  /\ \E n \in {Len(current)} : \E c \in {endScope(Compiler(n))} :
       ScopeStep([current EXCEPT ![n] = c], endDeclaration(c.parser), "end", <<>>, <<>>)
  /\ outcome' = [outcome EXCEPT ![Len(outcome)] = SubSeq(@, 1, Len(@) - 1)]

\*   var name;   or   var name = read;
ScopeVar ==
  /\ Declarations(outcome[Len(outcome)]) < source.locals
  /\ \E name \in ScopeNames : \E read \in ScopeNames \cup {<<>>} : \E n \in {Len(current)} :
       \E c \in {declareVariable(Compiler(n), name)} :
         \E r \in {IF read = <<>>
                   THEN [cs |-> [current EXCEPT ![n] = emitByte(c, "OP_NIL")], p |-> c.parser]
                   ELSE variable([current EXCEPT ![n] = c], c.parser, read)} :
           \E c1 \in {markInitialized([r.cs[n] EXCEPT !.parser = r.p])} :
             /\ ScopeStep([r.cs EXCEPT ![n] = c1], endDeclaration(c1.parser), "var", name, read)
             /\ outcome' = [outcome EXCEPT ![Len(outcome)] = Declare(@, name)]

\*   read;
ScopeRead ==
  /\ \E read \in ScopeNames : \E r \in {variable(current, parser, read)} :
       ScopeStep(r.cs, endDeclaration(r.p), "read", <<>>, read)
  /\ UNCHANGED outcome

ScopeNext ==
  \/ ScopeBegin
  \/ ScopeEnd
  \/ ScopeVar
  \/ ScopeRead

SpecScope == ScopeInit /\ [][ScopeNext]_vars

\* ---------------------------------------- SpecUpvalue: nested functions
\* Functions inside one another in a script, each with the scope of its body
\* and as many locals as there are names.
UpvalueInit == ScopeStart(Texts(Cardinality(ScopeNames), 0, MaxNesting))

\*   fun f() {     under a name that is free in its scope
ScopeFun ==
  /\ Len(current) < source.nesting
  /\ Len(current) = 1 \/ Declarations(outcome[Len(outcome)]) < source.locals
  /\ \E n \in {Len(current)} : \E c \in {declareVariable(Compiler(n), STR_f)} :
       /\ c.parser.reported = <<>>
       /\ \E c1 \in {markInitialized(c)} :
            \E inner \in {beginScope(CompilerAt("TYPE_FUNCTION", <<Token("TOKEN_EOF", 0)>>,
                                                c1.parser))} :
              ScopeStep(Append([current EXCEPT ![n] = c1], inner), inner.parser, "fun",
                        STR_f, <<>>)
  /\ outcome' = Append([outcome EXCEPT ![Len(outcome)] = Declare(@, STR_f)], <<<<>>>>)

\*   }   of a function body: endCompiler, OP_CLOSURE, defineVariable
ScopeReturn ==
  /\ Len(current) > 1 /\ Len(outcome[Len(outcome)]) = 1
  /\ \E n \in {Len(current) - 1} : \E c \in {emitBytes(Compiler(n), "OP_CLOSURE", 0)} :
       \E c1 \in {markInitialized(c)} :
         ScopeStep([SubSeq(current, 1, n) EXCEPT ![n] = c1], endDeclaration(c1.parser),
                   "return", STR_f, <<>>)
  /\ outcome' = SubSeq(outcome, 1, Len(outcome) - 1)

UpvalueNext ==
  \/ ScopeVar
  \/ ScopeRead
  \/ ScopeFun
  \/ ScopeReturn

SpecUpvalue == UpvalueInit /\ [][UpvalueNext]_vars

\* ------------------------------------------- claims on locals and upvalues
\* The scopes of the function being compiled.
Scopes == outcome[Len(outcome)]

\* The last step declared a name that its scope had already.
Redeclared ==
  /\ Scopes # <<>>
  /\ \E i \in 1..(Len(Scopes[Len(Scopes)]) - 1) : Scopes[Len(Scopes)][i].name = last.name

\* The last step read the variable it was declaring.
OwnInitializer == Scopes # <<>> /\ last.read = last.name

ResolvesInnermost ==
  last.read # <<>> =>
    \E d \in {Lookup(Scopes, last.read)} :
      IF d.slot # -1 THEN last.instr = Instr("OP_GET_LOCAL", d.slot)
      ELSE last.instr.op # "OP_GET_LOCAL"

DeclaresOncePerScope ==
  last.op = "var" =>
    /\ Redeclared <=>
         last.reported # <<>> /\
         last.reported[1] = "Already a variable with this name in this scope."
    /\ Redeclared => last.hadError

InitializerUnread ==
  last.op = "var" =>
    /\ OwnInitializer =>
         /\ last.hadError
         /\ Redeclared \/
              last.reported = <<"can't read local variable in its own initializer.">>
    /\ ~OwnInitializer => \A i \in 1..Len(last.reported) :
         last.reported[i] # "can't read local variable in its own initializer."

\* C29: in a function a name stands for the last local declared under it in
\* the innermost open scope that has one; declaring a name a second time in
\* one scope is a compile error, declaring it in a scope inside is none; and
\* reading a local in its own initializer is a compile error.
C29_LocalScopes == ResolvesInnermost /\ DeclaresOncePerScope /\ InitializerUnread

\*   { var a; { var a; a;      reads the inner a, in slot 2
C29_Witness ==
  /\ last.op = "read" /\ Len(Scopes) = 2 /\ last.instr = Instr("OP_GET_LOCAL", 2)
  /\ Lookup(SubSeq(Scopes, 1, 1), last.read).slot = 1
  /\ ~last.hadError

\* The function that declares the variable the last step read, counted from
\* the script, or 0: the nearest one around the function being compiled.
Declaring ==
  With({j \in 1..(Len(outcome) - 1) : Lookup(outcome[j], last.read).slot # -1},
       LAMBDA around :
    IF around = {} THEN 0 ELSE CHOOSE j \in around : \A i \in around : i <= j)

\* The index of function m's upvalue for the local in this slot of function j,
\* or -1.
RECURSIVE UpvalueOf(_, _, _)
UpvalueOf(m, j, slot) ==
  With(IF m = j + 1 THEN [isLocal |-> TRUE, index |-> slot]
       ELSE [isLocal |-> FALSE, index |-> UpvalueOf(m - 1, j, slot)], LAMBDA wanted :
    With({i \in 1..Len(current[m].upvalues) : current[m].upvalues[i] = wanted},
         LAMBDA found :
      IF Cardinality(found) = 1 THEN (CHOOSE i \in found : TRUE) - 1 ELSE -1))

\* The last step read a local of a function around the one being compiled.
ReadsUpvalue ==
  /\ last.read # <<>> /\ Lookup(Scopes, last.read).slot = -1
  /\ Declaring # 0

\* C30: after a function has read a local of a function k levels out, each
\* function from the one inside the declaring function to the reading one has
\* an upvalue for it, the first {index = the local's slot, isLocal = true}, each
\* further one {index = the upvalue's index in the function around it, isLocal =
\* false}; the local is marked isCaptured; and resolving the name once more
\* gives the same index and adds no upvalue.
C30_UpvalueChain ==
  ReadsUpvalue =>
    \E n \in {Len(current)} : \E j \in {Declaring} :
      \E slot \in {Lookup(outcome[j], last.read).slot} :
        /\ \A m \in (j + 1)..n : UpvalueOf(m, j, slot) # -1
        /\ last.instr = Instr("OP_GET_UPVALUE", UpvalueOf(n, j, slot))
        /\ current[j].locals[slot + 1].name = last.read
        /\ current[j].locals[slot + 1].isCaptured
        /\ \E again \in {resolveUpvalue(current, parser, n, last.read)} :
             /\ again.arg = UpvalueOf(n, j, slot)
             /\ \A m \in 1..n : again.cs[m].upvalues = current[m].upvalues

\* fun f() { var a; fun f() { var b; fun f() { b; a;
\* the innermost function reads a through the upvalue of the function around.
C30_Witness ==
  /\ ReadsUpvalue /\ Len(current) = 4 /\ Declaring = 2
  /\ last.instr = Instr("OP_GET_UPVALUE", 1)
  /\ Len(current[4].upvalues) = 2 /\ current[4].upvalues[1].isLocal
  /\ current[4].upvalues[2] = [isLocal |-> FALSE, index |-> 0]
  /\ current[3].upvalues = <<[isLocal |-> TRUE, index |-> 1]>>

\* ------------------------------------------------ claims on initCompiler
\* The claim as stated: slot 0 has the empty name in a script and in a
\* function, and the name "this" in a method and in an initializer.
C40_ScriptSlotUnnamed ==
  phase = "compile" =>
    /\ current.type \in {"TYPE_SCRIPT", "TYPE_FUNCTION"} => current.locals[1].name = <<>>
    /\ current.type \in {"TYPE_METHOD", "TYPE_INITIALIZER"} =>
         current.locals[1].name = STR_this

\* C40: after initCompiler the reserved local slot 0 has depth 0, is not
\* captured, and has the empty name when the function type is FUNCTION and the
\* name "this" for every other type: SCRIPT, METHOD and INITIALIZER.
C40_SlotZeroName ==
  phase = "compile" =>
    /\ Len(current.locals) = 1
    /\ current.locals[1].depth = 0 /\ ~current.locals[1].isCaptured
    /\ current.type = "TYPE_FUNCTION" => current.locals[1].name = <<>>
    /\ current.type \in {"TYPE_SCRIPT", "TYPE_METHOD", "TYPE_INITIALIZER"} =>
         current.locals[1].name = STR_this

\* The compiler of a script, with slot 0 named "this".
C40_Witness ==
  /\ phase = "compile" /\ current.type = "TYPE_SCRIPT"
  /\ current.locals[1].name = STR_this

\* ------------------------------------------------ claims on the probe loops
IsEmptySlot(entry) == entry.key = NULL /\ IS_NIL(entry.value)

\* The probe loop of findEntry for key, started at the key's home slot, meets
\* the key or an empty slot within capacity steps.
ProbeEnds(h, table, key) ==
  \E d \in 0..(table.capacity - 1) :
    LET entry == table.entries[((HashIndex(h[key].hash, table.capacity) + d)
                                 % table.capacity) + 1]
    IN  entry.key = key \/ IsEmptySlot(entry)

\* The probe loop of tableFindString for the characters of key: it ends at an
\* empty slot or at a key with these characters.
FindStringEnds(h, table, key) ==
  \E d \in 0..(table.capacity - 1) :
    LET entry == table.entries[((HashIndex(h[key].hash, table.capacity) + d)
                                 % table.capacity) + 1]
    IN  \/ IsEmptySlot(entry)
        \/ entry.key # NULL /\ h[entry.key].hash = h[key].hash
                            /\ h[entry.key].chars = h[key].chars

\* tableGet, tableDelete and tableFindString probe only when count is not 0;
\* tableSet probes after its growth test, so in an array that did not have to
\* grow or in the fresh one of GROW_CAPACITY slots.
ProbesTerminate(h, table) ==
  /\ table.count # 0 => table.capacity > 0
  /\ ~TableMustGrow(table) => table.capacity > 0
  /\ GROW_CAPACITY(table.capacity) > 0
  /\ table.capacity > 0 =>
       /\ \E i \in 1..table.capacity : IsEmptySlot(table.entries[i])
       /\ table.count = Cardinality({i \in 1..table.capacity :
                                      ~IsEmptySlot(table.entries[i])})
       /\ table.count * 4 <= table.capacity * 3
       /\ \A key \in TableKeys : ProbeEnds(h, table, key) /\ FindStringEnds(h, table, key)

\* C36: every probe loop terminates: a table of capacity > 0 always has a slot
\* that is empty and not a tombstone, because count counts keys and tombstones
\* and is at most 0.75 * capacity, and findEntry and tableFindString run only
\* on a table of capacity > 0.
C36_ProbesTerminate ==
  /\ ProbesTerminate(heap, tbl) /\ ProbesTerminate(heap, src)
  /\ ProbesTerminate(heap, globals) /\ ProbesTerminate(heap, strings)

\* A tableGet of an absent key has just returned false from a table filled to
\* 0.75 * capacity, tombstone included.
C36_Witness ==
  /\ tret.op = "get" /\ ~tret.r /\ ~tret.present
  /\ tbl.capacity = 8 /\ tbl.count = 6 /\ HasTombstone(tbl)
  /\ Cardinality({i \in 1..tbl.capacity : IsEmptySlot(tbl.entries[i])}) = 2

\* ------------------------------------------- claims on the all-objects list
Unfreed == {o \in 1..Len(heap) : heap[o].type # "freed"}

\* Until freeVM, vm.objects holds every unfreed object once and no freed one.
ListedOnce ==
  /\ fault # "free"
  /\ phase # "freed" =>
       /\ \A o \in Unfreed : Cardinality({i \in DOMAIN objects : objects[i] = o}) = 1
       /\ \A i \in DOMAIN objects : objects[i] \in Unfreed
  /\ phase = "freed" => Unfreed = {}

\* A step frees an object only as sweep does (the object was on the list and is
\* unlinked) or as freeObjects does (the object was on the list and the VM is
\* freed); what was freed stays freed.
FreedBySweep ==
  \A o \in 1..Len(heap) :
    /\ heap[o].type # "freed" /\ heap'[o].type = "freed" =>
         /\ \E i \in DOMAIN objects : objects[i] = o
         /\ phase' = "freed" \/ last'.op \in {"collectGarbage", "copyString", "takeString"}
         /\ phase' # "freed" => \A i \in DOMAIN objects' : objects'[i] # o
    /\ heap[o].type = "freed" => heap'[o].type = "freed"

\* C34: every allocated object that has not been freed is exactly once on the
\* list rooted at vm.objects, an object is freed only by sweep or by
\* freeObjects, and no object is freed twice, over any sequence of
\* allocations, collections and a final freeVM.
C34_ObjectsList == []ListedOnce /\ [][FreedBySweep]_vars

\* freeVM has freed what two collections had left: some objects were freed by
\* a sweep before, the others by freeObjects.
C34_Witness ==
  /\ phase = "freed" /\ last.op = "freeVM"
  /\ Len(heap) >= 5 /\ Len(objects) >= 3 /\ Len(objects) < Len(heap)

\* ------------------------------------------------ claims on the operand stack
\* C37: while a program that compiled without error runs, push is never
\* executed with STACK_MAX values on the stack: stackTop stays within vm.stack.
C37_NoStackOverflow == fault # "overflow" /\ stackTop <= STACK_MAX

\* The frame limit, when it is what stops the recursion.
DeepFrameLimit ==
  /\ last.message = "Stack overflow." /\ result = "runtime_error"
  /\ last.frameCount = FRAMES_MAX /\ last.height < STACK_MAX

\* ------------------------------------------ SpecAssign: assignment targets
\* An expression statement `target = value;` is compiled in a script, a
\* function or a method, at top level or in a block that declares `a`.
Identifier(name) == Token("TOKEN_IDENTIFIER", name)

\* The characters of the tokens that are not names or numbers.
Lexemes ==
  [TOKEN_LEFT_PAREN |-> <<40>>, TOKEN_RIGHT_PAREN |-> <<41>>,
   TOKEN_LEFT_BRACE |-> <<123>>, TOKEN_RIGHT_BRACE |-> <<125>>,
   TOKEN_COMMA |-> <<44>>, TOKEN_DOT |-> <<46>>, TOKEN_MINUS |-> <<45>>,
   TOKEN_PLUS |-> <<43>>, TOKEN_SEMICOLON |-> <<59>>, TOKEN_SLASH |-> <<47>>,
   TOKEN_STAR |-> <<42>>, TOKEN_BANG |-> <<33>>, TOKEN_BANG_EQUAL |-> <<33, 61>>,
   TOKEN_EQUAL |-> <<61>>, TOKEN_EQUAL_EQUAL |-> <<61, 61>>, TOKEN_GREATER |-> <<62>>,
   TOKEN_GREATER_EQUAL |-> <<62, 61>>, TOKEN_LESS |-> <<60>>,
   TOKEN_LESS_EQUAL |-> <<60, 61>>, TOKEN_AND |-> <<97, 110, 100>>,
   TOKEN_CLASS |-> <<99, 108, 97, 115, 115>>, TOKEN_ELSE |-> <<101, 108, 115, 101>>,
   TOKEN_FALSE |-> <<102, 97, 108, 115, 101>>, TOKEN_FOR |-> <<102, 111, 114>>,
   TOKEN_FUN |-> <<102, 117, 110>>, TOKEN_IF |-> <<105, 102>>,
   TOKEN_NIL |-> <<110, 105, 108>>, TOKEN_OR |-> <<111, 114>>,
   TOKEN_PRINT |-> <<112, 114, 105, 110, 116>>,
   TOKEN_RETURN |-> <<114, 101, 116, 117, 114, 110>>,
   TOKEN_THIS |-> <<116, 104, 105, 115>>, TOKEN_TRUE |-> <<116, 114, 117, 101>>,
   TOKEN_VAR |-> <<118, 97, 114>>, TOKEN_WHILE |-> <<119, 104, 105, 108, 101>>]

Tok(type) == Token(type, Lexemes[type])

\* What is to be assigned: the name, and whether it is a property.
Assigned(name, property) == [name |-> name, property |-> property]

\* [tokens, kind, assigned]: the text before the '=', what it is (a variable,
\* a property access, `this`, or another expression), and what an '=' after it
\* assigns to.
AssignTarget(tokens, kind, assigned) ==
  [tokens |-> tokens, kind |-> kind, assigned |-> assigned]

AssignTargets ==
  << AssignTarget(<<Identifier(STR_a)>>, "variable", <<Assigned(STR_a, FALSE)>>),
     AssignTarget(<<Identifier(STR_a), Tok("TOKEN_DOT"), Identifier(STR_b)>>,
                  "property", <<Assigned(STR_b, TRUE)>>),
     AssignTarget(<<Identifier(STR_a), Tok("TOKEN_DOT"), Identifier(STR_b),
                    Tok("TOKEN_DOT"), Identifier(STR_c)>>,
                  "property", <<Assigned(STR_c, TRUE)>>),
     AssignTarget(<<Tok("TOKEN_THIS"), Tok("TOKEN_DOT"), Identifier(STR_b)>>,
                  "property", <<Assigned(STR_b, TRUE)>>),
     AssignTarget(<<Identifier(STR_a), Tok("TOKEN_LEFT_PAREN"), Tok("TOKEN_RIGHT_PAREN"),
                    Tok("TOKEN_DOT"), Identifier(STR_b)>>,
                  "property", <<Assigned(STR_b, TRUE)>>),
     AssignTarget(<<Tok("TOKEN_LEFT_PAREN"), Identifier(STR_a), Tok("TOKEN_RIGHT_PAREN"),
                    Tok("TOKEN_DOT"), Identifier(STR_b)>>,
                  "property", <<Assigned(STR_b, TRUE)>>),
     AssignTarget(<<Tok("TOKEN_THIS")>>, "this", <<>>),
     AssignTarget(<<Identifier(STR_a), Tok("TOKEN_STAR"), Identifier(STR_b)>>, "other", <<>>),
     AssignTarget(<<Identifier(STR_a), Tok("TOKEN_PLUS"), Identifier(STR_b)>>, "other", <<>>),
     AssignTarget(<<Identifier(STR_a), Tok("TOKEN_PLUS"), Identifier(STR_b),
                    Tok("TOKEN_DOT"), Identifier(STR_c)>>, "other", <<>>),
     AssignTarget(<<Identifier(STR_a), Tok("TOKEN_EQUAL_EQUAL"), Identifier(STR_b)>>,
                  "other", <<>>),
     AssignTarget(<<Identifier(STR_a), Tok("TOKEN_AND"), Identifier(STR_b)>>, "other", <<>>),
     AssignTarget(<<Identifier(STR_a), Tok("TOKEN_OR"), Identifier(STR_b)>>, "other", <<>>),
     AssignTarget(<<Tok("TOKEN_LEFT_PAREN"), Identifier(STR_a), Tok("TOKEN_RIGHT_PAREN")>>,
                  "other", <<>>),
     AssignTarget(<<Tok("TOKEN_MINUS"), Identifier(STR_a)>>, "other", <<>>),
     AssignTarget(<<Tok("TOKEN_BANG"), Identifier(STR_a)>>, "other", <<>>),
     AssignTarget(<<Tok("TOKEN_MINUS"), Identifier(STR_a), Tok("TOKEN_DOT"),
                    Identifier(STR_b)>>, "other", <<>>),
     AssignTarget(<<Identifier(STR_a), Tok("TOKEN_LEFT_PAREN"), Tok("TOKEN_RIGHT_PAREN")>>,
                  "other", <<>>),
     AssignTarget(<<Identifier(STR_a), Tok("TOKEN_DOT"), Identifier(STR_b),
                    Tok("TOKEN_LEFT_PAREN"), Tok("TOKEN_RIGHT_PAREN")>>, "other", <<>>),
     AssignTarget(<<Token("TOKEN_NUMBER", 1)>>, "other", <<>>),
     AssignTarget(<<Tok("TOKEN_NIL")>>, "other", <<>>) >>

\* The text after the '=': a value, or an assignment in turn.
AssignValues ==
  << AssignTarget(<<Identifier(STR_c)>>, "value", <<>>),
     AssignTarget(<<Token("TOKEN_NUMBER", 1), Tok("TOKEN_PLUS"), Token("TOKEN_NUMBER", 2)>>,
                  "value", <<>>),
     AssignTarget(<<Identifier(STR_b), Tok("TOKEN_EQUAL"), Identifier(STR_c)>>,
                  "value", <<Assigned(STR_b, FALSE)>>),
     AssignTarget(<<Identifier(STR_b), Tok("TOKEN_DOT"), Identifier(STR_c),
                    Tok("TOKEN_EQUAL"), Identifier(STR_a)>>,
                  "value", <<Assigned(STR_c, TRUE)>>) >>

\* target = value ;  An '=' of the value assigns only if the first one does.
AssignSource(t, v, type, inBlock) ==
  [tokens |-> AssignTargets[t].tokens \o <<Tok("TOKEN_EQUAL")>> \o AssignValues[v].tokens
              \o Semicolon,
   kind |-> AssignTargets[t].kind, target |-> t, value |-> v,
   assigned |-> IF AssignTargets[t].assigned = <<>> THEN <<>>
                ELSE AssignTargets[t].assigned \o AssignValues[v].assigned,
   usesThis |-> \E i \in DOMAIN AssignTargets[t].tokens :
                  AssignTargets[t].tokens[i].type = "TOKEN_THIS",
   type |-> type, inBlock |-> inBlock]

\* The Compiler in a block where the local `a` is declared.
InBlock(c) ==
  [c EXCEPT !.scopeDepth = 1,
            !.locals = Append(@, [name |-> STR_a, depth |-> 1, isCaptured |-> FALSE])]

AssignInit ==
  /\ Holds(initVM) /\ NoTable /\ NoCounts /\ stress = FALSE
  /\ prog = 0 /\ result = "none" /\ runs = 0 /\ last = Saw("none")
  /\ phase = "compile" /\ outcome = <<>>
  /\ \E t \in DOMAIN AssignTargets, v \in DOMAIN AssignValues,
        type \in {"TYPE_SCRIPT", "TYPE_FUNCTION", "TYPE_METHOD"}, inBlock \in BOOLEAN :
       /\ source = AssignSource(t, v, type, inBlock)
       /\ \E c \in {CompilerAt(type, source.tokens, NoError)} :
            current = IF inBlock THEN InBlock(c) ELSE c
  /\ parser = NoError

\* statement() on the text: an expression statement.
AssignStatement ==
  /\ phase = "compile" /\ source # <<>>
  /\ \E c \in {current} : \E c1 \in {statement(c)} :
       /\ current' = c1 /\ parser' = c1.parser
       /\ result' = IF compileResult(c1.parser, 1) = NULL THEN "compile_error" ELSE "ok"
  /\ phase' = "idle" /\ last' = Saw("statement")
  /\ UNCHANGED <<vmvars, stress, prog, runs, tablevars, source, outcome, memvars>>

AssignNext == AssignStatement

SpecAssign == AssignInit /\ [][AssignNext]_vars

\* The OP_SET_ instructions of the chunk in the order they run, each as what it
\* assigns to.
SetInstructions(c) ==
  SelectSeq(c.code, LAMBDA i : i.op \in {"OP_SET_LOCAL", "OP_SET_GLOBAL", "OP_SET_UPVALUE",
                                         "OP_SET_PROPERTY"})

SetTargets(c) ==
  [i \in DOMAIN SetInstructions(c) |->
     With(SetInstructions(c)[i], LAMBDA instruction :
       Assigned(IF instruction.op = "OP_SET_LOCAL" THEN c.locals[instruction.a + 1].name
                ELSE c.constants[instruction.a + 1].v,
                instruction.op = "OP_SET_PROPERTY"))]

Reversed(seq) == [i \in DOMAIN seq |-> seq[Len(seq) + 1 - i]]

ThisOutsideClass == source.usesThis /\ source.type # "TYPE_METHOD"

\* C33: an '=' assigns only directly after a variable or a .property parsed at
\* precedence ASSIGNMENT or lower: then no error is reported for it, the
\* assignments of `a = b = c` are compiled innermost first (b is set before a),
\* and the value is left on the stack for the OP_POP; an '=' after any other
\* expression, `this` included, emits no OP_SET_ instruction and is the
\* compile error "Invalid assignment target.".
C33_AssignmentTargets ==
  (last.op = "statement" /\ source # <<>> /\ source.tokens # <<>>
     /\ "target" \in DOMAIN source) =>
    /\ source.kind \in {"variable", "property"} =>
         /\ SetTargets(current) = Reversed(source.assigned)
         /\ parser.hadError = ThisOutsideClass
         /\ \A i \in DOMAIN parser.reported :
              parser.reported[i] # "Invalid assignment target."
         /\ current.code[Len(current.code)].op = "OP_POP"
         /\ current.code[Len(current.code) - 1] = SetInstructions(current)[Len(source.assigned)]
         /\ check(current, "TOKEN_EOF")
    /\ source.kind \in {"other", "this"} =>
         /\ SetInstructions(current) = <<>>
         /\ parser.hadError /\ result = "compile_error"
         /\ parser.reported = IF ThisOutsideClass
                              THEN <<"Can't use 'this' outside of a class.">>
                              ELSE <<"Invalid assignment target.">>

\* `a * b = c;` has been compiled in a method: the error is reported at the
\* '=' and nothing is assigned.
C33_Witness ==
  /\ last.op = "statement" /\ "target" \in DOMAIN source
  /\ source.tokens = <<Identifier(STR_a), Tok("TOKEN_STAR"), Identifier(STR_b),
                       Tok("TOKEN_EQUAL"), Identifier(STR_c)>> \o Semicolon
  /\ source.type = "TYPE_METHOD"
  /\ parser.reported = <<"Invalid assignment target.">>
  /\ [op \in DOMAIN current.code |-> current.code[op].op]
       = <<"OP_GET_GLOBAL", "OP_GET_GLOBAL", "OP_MULTIPLY", "OP_POP">>

\* ------------------------------------------ declarations and statements
\* parseVariable: [c, global]
parseVariable(c, errorMessage) ==
  With(consume(c, "TOKEN_IDENTIFIER", errorMessage), LAMBDA c1 :
    With(declareVariable(c1, c1.previous.value), LAMBDA c2 :
      IF c2.scopeDepth > 0 THEN [c |-> c2, global |-> 0]
      ELSE With(identifierConstant(c2, c2.previous.value), LAMBDA m :
             [c |-> m.c, global |-> m.constant])))

defineVariable(c, global) ==
  IF c.scopeDepth > 0 THEN markInitialized(c)
  ELSE emitBytes(c, "OP_DEFINE_GLOBAL", global)

varDeclaration(c) ==
  With(parseVariable(c, "Expect variable name."), LAMBDA v :
    With(IF check(v.c, "TOKEN_EQUAL") THEN expression(advance(v.c))
         ELSE emitByte(v.c, "OP_NIL"), LAMBDA c1 :
      With(consume(c1, "TOKEN_SEMICOLON", "Expect ';' after variable declaration."),
           LAMBDA c2 : defineVariable(c2, v.global))))

\* The Compiler `current` points at is kept with the ones around it, outermost
\* first, in its field enclosing; the chain is that list with it at the end.
CompilerChain(c) == c.enclosing \o <<[c EXCEPT !.enclosing = <<>>]>>

CurrentCompiler(cs) == [cs[Len(cs)] EXCEPT !.enclosing = SubSeq(cs, 1, Len(cs) - 1)]

\* initCompiler, as far as the Compiler goes: the parser and currentClass are
\* globals, and stay as they are.
newCompiler(c, type) ==
  [CompilerAt(type, c.tokens, c.parser) EXCEPT
     !.next = c.next, !.previous = c.previous, !.current = c.current,
     !.enclosing = CompilerChain(c), !.currentClass = c.currentClass]

\* endCompiler that leaves `current` at the compiler of the finished function.
enclosingCompilerStays(c) == c

\* current = current->enclosing of endCompiler.
enclosingCompiler(c) ==
  With(c.enclosing[Len(c.enclosing)], LAMBDA outer :
    [outer EXCEPT !.next = c.next, !.previous = c.previous, !.current = c.current,
                  !.parser = c.parser, !.currentClass = c.currentClass,
                  !.enclosing = SubSeq(c.enclosing, 1, Len(c.enclosing) - 1)])

\* The do-while of function() over the parameters.
RECURSIVE parameters(_)
parameters(c) ==
  With([c EXCEPT !.arity = @ + 1], LAMBDA c1 :
    With(IF c1.arity > UINT8_MAX
         THEN error(c1, "Can't have more than 255 parameters.") ELSE c1, LAMBDA c2 :
      With(parseVariable(c2, "Expect parameter name."), LAMBDA v :
        With(defineVariable(v.c, v.global), LAMBDA c3 :
          IF check(c3, "TOKEN_COMMA") THEN parameters(advance(c3)) ELSE c3))))

\* function(type) up to its block(): the new Compiler at the body's first token.
functionHead(c, type) ==
  With(beginScope(newCompiler(c, type)), LAMBDA c1 :
    With(consume(c1, "TOKEN_LEFT_PAREN", "Expect '(' after function name."), LAMBDA c2 :
      With(IF ~check(c2, "TOKEN_RIGHT_PAREN") THEN parameters(c2) ELSE c2, LAMBDA c3 :
        With(consume(c3, "TOKEN_RIGHT_PAREN", "Expect ')' after parameters."), LAMBDA c4 :
          consume(c4, "TOKEN_LEFT_BRACE", "Expect '{' before function body.")))))

\* The initializer clause of forStatement.
forInitializer(c) ==
  IF check(c, "TOKEN_SEMICOLON") THEN advance(c)
  ELSE IF check(c, "TOKEN_VAR") THEN varDeclaration(advance(c))
  ELSE expressionStatement(c)

\* The condition clause: [c, exitJump]
forCondition(c) ==
  IF check(c, "TOKEN_SEMICOLON") THEN [c |-> advance(c), exitJump |-> -1]
  ELSE With(expression(c), LAMBDA c1 :
         With(consume(c1, "TOKEN_SEMICOLON", "Expect ';' after loop condition."), LAMBDA c2 :
           With(emitJump(c2, "OP_JUMP_IF_FALSE"), LAMBDA exitJump :
             [c |-> emitByte(exitJump.c, "OP_POP"), exitJump |-> exitJump.offset])))

\* The increment clause that leaves loopStart at the condition.
forIncrementSkipped(c, loopStart) ==
  IF check(c, "TOKEN_RIGHT_PAREN") THEN [c |-> advance(c), loopStart |-> loopStart]
  ELSE With(emitJump(c, "OP_JUMP"), LAMBDA bodyJump :
         With(expression(bodyJump.c), LAMBDA c1 :
           With(emitByte(c1, "OP_POP"), LAMBDA c2 :
             With(consume(c2, "TOKEN_RIGHT_PAREN", "Expect ')' after for clauses."),
                  LAMBDA c3 :
               With(emitLoop(c3, loopStart), LAMBDA c4 :
                 [c |-> patchJump(c4, bodyJump.offset), loopStart |-> loopStart])))))

\* The increment clause: [c, loopStart]
forIncrement(c, loopStart) ==
  IF check(c, "TOKEN_RIGHT_PAREN") THEN [c |-> advance(c), loopStart |-> loopStart]
  ELSE With(emitJump(c, "OP_JUMP"), LAMBDA bodyJump :
         With(expression(bodyJump.c), LAMBDA c1 :
           With(emitByte(c1, "OP_POP"), LAMBDA c2 :
             With(consume(c2, "TOKEN_RIGHT_PAREN", "Expect ')' after for clauses."),
                  LAMBDA c3 :
               With(emitLoop(c3, loopStart), LAMBDA c4 :
                 [c |-> patchJump(c4, bodyJump.offset),
                  loopStart |-> Len(bodyJump.c.code)])))))

\* forStatement up to its statement(): [c, loopStart, exitJump], and where the
\* clauses are in the chunk: the statement's code follows `start` instructions,
\* the condition's `condition`, the increment's `increment`, the body's `body`.
forHead(c) ==
  With(consume(beginScope(c), "TOKEN_LEFT_PAREN", "Expect '(' after 'for'."), LAMBDA c1 :
    With(forInitializer(c1), LAMBDA c2 :
      With(forCondition(c2), LAMBDA condition :
        With(forIncrement(condition.c, Len(c2.code)), LAMBDA increment :
          [c |-> increment.c, loopStart |-> increment.loopStart,
           exitJump |-> condition.exitJump,
           start |-> Len(c.code), condition |-> Len(c2.code),
           increment |-> Len(condition.c.code), body |-> Len(increment.c.code)]))))

\* forStatement after its statement().
forEnd(c, loopStart, exitJump) ==
  With(emitLoop(c, loopStart), LAMBDA c1 :
    With(IF exitJump # -1 THEN emitByte(patchJump(c1, exitJump), "OP_POP") ELSE c1,
         LAMBDA c2 : endScope(c2)))

\* block() after its loop.
blockEnd(c) == consume(c, "TOKEN_RIGHT_BRACE", "Expect '}' after block.")

STR_super == <<115, 117, 112, 101, 114>>

\* The superclass clause of classDeclaration, after the '<'.
superclassClause(c, className) ==
  With(consume(c, "TOKEN_IDENTIFIER", "Expect superclass name."), LAMBDA c1 :
    With(variableRule(c1, FALSE), LAMBDA c2 :
      With(IF className = c2.previous.value
           THEN error(c2, "A class can't inherit from itself.") ELSE c2, LAMBDA c3 :
        With(defineVariable(addLocal(beginScope(c3), STR_super), 0), LAMBDA c4 :
          With(emitByte(namedVariableAssign(c4, className, FALSE), "OP_INHERIT"), LAMBDA c5 :
            [c5 EXCEPT !.currentClass[Len(c5.currentClass)].hasSuperclass = TRUE])))))

\* classDeclaration up to its loop over the methods.
classHead(c) ==
  With(consume(c, "TOKEN_IDENTIFIER", "Expect class name."), LAMBDA c1 :
    With(c1.previous.value, LAMBDA className :
      With(identifierConstant(c1, className), LAMBDA m :
        With(emitBytes(declareVariable(m.c, className), "OP_CLASS", m.constant), LAMBDA c2 :
          With([defineVariable(c2, m.constant) EXCEPT
                  !.currentClass = Append(@, ClassCompiler)], LAMBDA c3 :
            With(IF check(c3, "TOKEN_LESS") THEN superclassClause(advance(c3), className)
                 ELSE c3, LAMBDA c4 :
              consume(namedVariableAssign(c4, className, FALSE), "TOKEN_LEFT_BRACE",
                      "Expect '{' before class body.")))))))

\* classDeclaration after its loop over the methods.
classEnd(c) ==
  With(emitByte(consume(c, "TOKEN_RIGHT_BRACE", "Expect '}' after class body."), "OP_POP"),
       LAMBDA c1 :
    With(IF c1.currentClass[Len(c1.currentClass)].hasSuperclass THEN endScope(c1) ELSE c1,
         LAMBDA c2 :
      [c2 EXCEPT !.currentClass = SubSeq(@, 1, Len(@) - 1)]))

\* ------------------------------- SpecControl: compile a text, then run it
\* interpret of a text given as tokens: compile as the parser's functions call
\* one another, then run.  `current` is the chain of Compilers, outermost
\* first, and empty where the C variable is NULL; `outcome` holds the calls of
\* the compiler that have not returned, and what the compiler knew of the chunk.
\*
\* A call that has not returned: of compile, block (of a block statement),
\* function, forStatement or classDeclaration.  decl: it was called by declaration(), which
\* synchronizes after it; global: the operand of funDeclaration's
\* defineVariable, or of method's OP_METHOD (method); done: the statement() of
\* forStatement has returned.  A pending classDeclaration is at its loop over
\* the methods.
Pending(fn, decl) ==
  [fn |-> fn, decl |-> decl, global |-> 0, loopStart |-> 0, exitJump |-> -1,
   done |-> FALSE, loop |-> 0, method |-> FALSE]

\* What the compiler knew: at the statements' first instructions the number of
\* locals in scope (marks), where each print statement's OP_PRINT is (sites),
\* where the clauses of each for statement are (loops), the functions whose
\* endCompiler has run (finished), and currentClass.
NoOutcome ==
  [calls |-> <<>>, marks |-> {}, sites |-> <<>>, loops |-> <<>>, finished |-> {},
   currentClass |-> <<>>]

Calls == outcome.calls

TopCall == Calls[Len(Calls)]

InCompile == phase = "compile" /\ source # <<>> /\ current # <<>> /\ Calls # <<>>

\* The Compiler `current` points at.
Here == [CurrentCompiler(current) EXCEPT !.parser = parser]

\* The loop of compile or of block goes on: declaration() is called.
AtDeclaration ==
  /\ InCompile /\ TopCall.fn \in {"compile", "block", "function"}
  /\ ~check(Here, "TOKEN_EOF")
  /\ TopCall.fn # "compile" => ~check(Here, "TOKEN_RIGHT_BRACE")

\* forStatement calls statement().
AtStatement == InCompile /\ TopCall.fn = "forStatement" /\ ~TopCall.done

\* The loop of compile or of block has ended.
AtEnd(fn) ==
  /\ InCompile /\ TopCall.fn = fn
  /\ check(Here, "TOKEN_EOF") \/ (fn # "compile" /\ check(Here, "TOKEN_RIGHT_BRACE"))

\* declaration() after the declaration or statement.
afterDeclaration(c, decl) ==
  IF decl /\ c.parser.panicMode THEN synchronizeCompiler(c) ELSE c

\* The calls when a statement has returned: a forStatement that waited for its
\* statement() goes on.
statementReturned(calls) ==
  IF calls # <<>> /\ calls[Len(calls)].fn = "forStatement" /\ ~calls[Len(calls)].done
  THEN [calls EXCEPT ![Len(calls)].done = TRUE]
  ELSE calls

Caller(calls) == SubSeq(calls, 1, Len(calls) - 1)

\* The constants of a finished chunk are installed as addConstant added them;
\* the name of a variable or property is the interned string.
RECURSIVE installConstants(_, _, _, _)
installConstants(s, function, constants, i) ==
  IF i > Len(constants) THEN s
  ELSE With(constants[i], LAMBDA constant :
    IF constant.t = "str"
    THEN With(copyString(s, constant.v, NoGC), LAMBDA str :
           With(addConstant(str.s, function, OBJ_VAL(str.p), FALSE), LAMBDA s1 :
             installConstants(s1, function, constants, i + 1)))
    ELSE With(addConstant(s, function, constant, FALSE), LAMBDA s1 :
           installConstants(s1, function, constants, i + 1)))

\* [s, p]: endCompiler for the Compiler c: its function gets the chunk.
installFunction(s, c) ==
  With(installConstants(s, s.compilers[1].function, c.constants, 1), LAMBDA s1 :
    endCompiler(s1, [arity |-> c.arity, upvalues |-> c.upvalues, type |-> c.type,
                     code |-> c.code]))

NoCollection == <<FALSE, FALSE, FALSE, FALSE>>

\* The locals in scope where the next statement's code begins: their number,
\* and the name and depth of each by its index.  Between the methods of a
\* class no statement begins: the class is on the stack.
Mark(s, c) ==
  [function |-> s.compilers[1].function, ip |-> Len(c.code) + 1, locals |-> Len(c.locals),
   scope |-> [i \in 1..Len(c.locals) |-> <<c.locals[i].name, c.locals[i].depth>>]]

\* A step of the compiler: the VM is s, the Compiler c, the pending calls
\* calls.
ControlStep(s, c, calls, op, loops) ==
  /\ Commit(s) /\ current' = CompilerChain(c) /\ parser' = c.parser
  /\ outcome' = [outcome EXCEPT
                   !.calls = calls, !.loops = loops, !.currentClass = c.currentClass,
                   !.finished = @ \cup ({compilers[i].function : i \in DOMAIN compilers}
                                          \ {s.compilers[i].function : i \in DOMAIN s.compilers}),
                   !.marks = IF c.parser.hadError \/ calls[Len(calls)].fn = "class"
                             THEN @ ELSE @ \cup {Mark(s, c)},
                   !.sites = IF op = "statement" /\ Len(c.code) > Len(Here.code)
                                /\ c.code[Len(c.code)].op = "OP_PRINT"
                             THEN Append(@, [function |-> s.compilers[1].function,
                                             ip |-> Len(c.code)])
                             ELSE @]
  /\ last' = Saw(op)
  /\ UNCHANGED <<stress, phase, prog, result, runs, tablevars, source, memvars>>

\* interpret(source) up to the first declaration: initCompiler and advance.
ControlInterpret ==
  /\ phase = "idle" /\ runs = 0 /\ source # <<>>
  /\ \E s \in {initCompiler(VM, 0, <<>>, NoCollection)} :
       \E c \in {CompilerAt("TYPE_SCRIPT", source.tokens, NoError)} :
         /\ Commit(s) /\ current' = CompilerChain(c) /\ parser' = c.parser
         /\ outcome' = [outcome EXCEPT !.calls = <<Pending("compile", FALSE)>>,
                                       !.marks = {Mark(s, c)}]
  /\ phase' = "compile" /\ runs' = 1 /\ result' = "none" /\ last' = Saw("interpret")
  /\ UNCHANGED <<stress, prog, tablevars, source, memvars>>

\*   var name = expression ;
VarDeclaration ==
  /\ AtDeclaration /\ check(Here, "TOKEN_VAR")
  /\ \E c \in {varDeclaration(advance(Here))} : \E c1 \in {afterDeclaration(c, TRUE)} :
       ControlStep(VM, c1, Calls, "varDeclaration", outcome.loops)

\*   fun name ( parameters ) {
FunDeclaration ==
  /\ AtDeclaration /\ check(Here, "TOKEN_FUN")
  /\ \E v \in {parseVariable(advance(Here), "Expect function name.")} :
       \E c \in {markInitialized(v.c)} :
         \E s \in {initCompiler(VM, 0, c.previous.value, NoCollection)} :
           \E c1 \in {functionHead(c, "TYPE_FUNCTION")} :
             ControlStep(s, c1,
                         Append(Calls, [Pending("function", TRUE) EXCEPT !.global = v.global]),
                         "funDeclaration", outcome.loops)

\*   class name < superclass {
ClassDeclaration ==
  /\ AtDeclaration /\ check(Here, "TOKEN_CLASS")
  /\ \E c \in {classHead(advance(Here))} :
       ControlStep(VM, c, Append(Calls, Pending("class", TRUE)), "classDeclaration",
                   outcome.loops)

\*   name ( parameters ) {   of a method
Method ==
  /\ InCompile /\ TopCall.fn = "class"
  /\ ~check(Here, "TOKEN_RIGHT_BRACE") /\ ~check(Here, "TOKEN_EOF")
  /\ \E c \in {consume(Here, "TOKEN_IDENTIFIER", "Expect method name.")} :
       \E m \in {identifierConstant(c, c.previous.value)} :
         \E s \in {initCompiler(VM, 0, c.previous.value, NoCollection)} :
           \E c1 \in {functionHead(m.c, methodType(c.previous.value))} :
             ControlStep(s, c1,
                         Append(Calls, [Pending("function", FALSE) EXCEPT
                                          !.global = m.constant, !.method = TRUE]),
                         "method", outcome.loops)

\*   }   of a class body
ClassEnd ==
  /\ AtEnd("class")
  /\ \E c \in {classEnd(Here)} : \E c1 \in {afterDeclaration(c, TopCall.decl)} :
       ControlStep(VM, c1, Caller(Calls), "classEnd", outcome.loops)

\*   }   of a function body: endCompiler, OP_CLOSURE, and defineVariable of
\* funDeclaration or OP_METHOD of method
FunctionEnd ==
  /\ AtEnd("function")
  /\ \E c \in {blockEnd(Here)} : \E f \in {installFunction(VM, c)} :
       \E m \in {makeConstant(enclosingCompiler(c), OBJ_VAL(f.p))} :
         \E c1 \in {emitBytes(m.c, "OP_CLOSURE", m.constant)} :
           \E c2 \in {IF TopCall.method THEN emitBytes(c1, "OP_METHOD", TopCall.global)
                       ELSE defineVariable(c1, TopCall.global)} :
             \E c3 \in {afterDeclaration(c2, TopCall.decl)} :
               ControlStep(f.s, c3, statementReturned(Caller(Calls)), "function",
                           outcome.loops)

\*   {
BlockStatement ==
  /\ AtDeclaration \/ AtStatement
  /\ check(Here, "TOKEN_LEFT_BRACE")
  /\ \E c \in {beginScope(advance(Here))} :
       ControlStep(VM, c, Append(Calls, Pending("block", AtDeclaration)), "block",
                   outcome.loops)

\*   }   of a block statement
BlockEnd ==
  /\ AtEnd("block")
  /\ \E c \in {endScope(blockEnd(Here))} : \E c1 \in {afterDeclaration(c, TopCall.decl)} :
       ControlStep(VM, c1, statementReturned(Caller(Calls)), "endScope", outcome.loops)

\*   for ( initializer ; condition ; increment )
ForStatement ==
  /\ AtDeclaration \/ AtStatement
  /\ check(Here, "TOKEN_FOR")
  /\ \E head \in {forHead(advance(Here))} :
       ControlStep(VM, head.c,
                   Append(Calls, [Pending("forStatement", AtDeclaration) EXCEPT
                                    !.loopStart = head.loopStart,
                                    !.exitJump = head.exitJump,
                                    !.loop = Len(outcome.loops) + 1]),
                   "forStatement",
                   Append(outcome.loops,
                          [function |-> compilers[1].function, start |-> head.start,
                           condition |-> head.condition, increment |-> head.increment,
                           body |-> head.body, exitJump |-> head.exitJump,
                           locals |-> Len(Here.locals), loop |-> 0, end |-> 0]))

\* The statement of the for has been compiled: emitLoop, patchJump, endScope.
ForEnd ==
  /\ InCompile /\ TopCall.fn = "forStatement" /\ TopCall.done
  /\ \E c \in {forEnd(Here, TopCall.loopStart, TopCall.exitJump)} :
       \E c1 \in {afterDeclaration(c, TopCall.decl)} :
         ControlStep(VM, c1, statementReturned(Caller(Calls)), "forEnd",
                     [outcome.loops EXCEPT ![TopCall.loop].loop = Len(Here.code) + 1,
                                           ![TopCall.loop].end = Len(c.code)])

\* A print, return or expression statement.
SimpleStatement ==
  /\ \/ AtDeclaration /\ Here.current.type \notin {"TOKEN_CLASS", "TOKEN_VAR", "TOKEN_FUN",
                                                    "TOKEN_FOR", "TOKEN_LEFT_BRACE"}
     \/ AtStatement /\ Here.current.type \notin {"TOKEN_FOR", "TOKEN_LEFT_BRACE"}
  /\ \E c \in {statement(Here)} : \E c1 \in {afterDeclaration(c, AtDeclaration)} :
       ControlStep(VM, c1, statementReturned(Calls), "statement", outcome.loops)

\* The end of the text: compile returns, and interpret either returns
\* INTERPRET_COMPILE_ERROR or wraps the script in a closure and calls it.
CompileEnd ==
  /\ AtEnd("compile")
  /\ \E c \in {advance(Here)} : \E f \in {installFunction(VM, c)} :
       \E function \in {compileResult(c.parser, f.p)} :
         /\ current' = c.enclosing /\ parser' = c.parser
         /\ outcome' = [outcome EXCEPT !.calls = <<>>, !.currentClass = c.currentClass,
                                       !.finished = @ \cup {f.p}]
         /\ last' = [Saw("compile") EXCEPT !.name = function]
         /\ IF function = NULL
            THEN Commit(f.s) /\ phase' = "idle" /\ result' = "compile_error"
            ELSE \E s1 \in {push(f.s, OBJ_VAL(function))} :
                   \E closure \in {newClosure(s1, function, NoGC)} :
                     \E s2 \in {push(pop(closure.s), OBJ_VAL(closure.p))} :
                       /\ Commit(call(s2, closure.p, 0).s)
                       /\ phase' = "run" /\ result' = "none"
  /\ UNCHANGED <<stress, prog, runs, tablevars, source, memvars>>

\* ---- the texts
VarStmt(name, initializer) ==
  <<Tok("TOKEN_VAR"), Identifier(name)>>
    \o (IF initializer = <<>> THEN <<>> ELSE <<Tok("TOKEN_EQUAL")>> \o initializer)
    \o <<Tok("TOKEN_SEMICOLON")>>

PrintStmt(value) == <<Tok("TOKEN_PRINT")>> \o value \o <<Tok("TOKEN_SEMICOLON")>>

ReturnStmt(value) == <<Tok("TOKEN_RETURN")>> \o value \o <<Tok("TOKEN_SEMICOLON")>>

ExprStmt(value) == value \o <<Tok("TOKEN_SEMICOLON")>>

BlockOf(body) == <<Tok("TOKEN_LEFT_BRACE")>> \o body \o <<Tok("TOKEN_RIGHT_BRACE")>>

\* The initializer clause comes with its ';', or is the ';' alone.
ForStmt(initializer, condition, increment, body) ==
  <<Tok("TOKEN_FOR"), Tok("TOKEN_LEFT_PAREN")>> \o initializer \o condition
    \o <<Tok("TOKEN_SEMICOLON")>> \o increment \o <<Tok("TOKEN_RIGHT_PAREN")>> \o body

FunDecl(name, names, body) ==
  <<Tok("TOKEN_FUN"), Identifier(name), Tok("TOKEN_LEFT_PAREN")>> \o names
    \o <<Tok("TOKEN_RIGHT_PAREN")>> \o BlockOf(body)

Id(name) == <<Identifier(name)>>

Num(n) == <<Token("TOKEN_NUMBER", n)>>

Infix(left, operator, right) == left \o <<Tok(operator)>> \o right

AssignTo(name, value) == <<Identifier(name), Tok("TOKEN_EQUAL")>> \o value

CallOf(callee, arguments) ==
  callee \o <<Tok("TOKEN_LEFT_PAREN")>> \o arguments \o <<Tok("TOKEN_RIGHT_PAREN")>>

Grouped(value) == <<Tok("TOKEN_LEFT_PAREN")>> \o value \o <<Tok("TOKEN_RIGHT_PAREN")>>

STR_j == <<106>>
STR_p == <<112>>
STR_q == <<113>>
STR_r == <<114>>
STR_s == <<115>>
STR_d == <<100>>
STR_x == <<120>>

\* A text: its tokens, and for each print statement, in the order of the
\* text, the values Lox has it print.
Text(kind, tokens, expect) == [kind |-> kind, tokens |-> tokens, expect |-> expect]

\* The literals of the left operand of `and` and `or`.
Literals ==
  << [tokens |-> <<Tok("TOKEN_NIL")>>, value |-> NIL_VAL],
     [tokens |-> <<Tok("TOKEN_FALSE")>>, value |-> BOOL_VAL(FALSE)],
     [tokens |-> <<Tok("TOKEN_TRUE")>>, value |-> BOOL_VAL(TRUE)],
     [tokens |-> Num(0), value |-> NUMBER_VAL(0)] >>

\*   var g = 0; print <left> and (g = 2); print g;       (or: or)
\* The right operand is evaluated where the left one does not decide.
LogicalText(operator, left) ==
  With((operator = "TOKEN_AND") = ~isFalsey(left.value), LAMBDA evaluated :
    Text("logical",
         VarStmt(STR_g, Num(0))
           \o PrintStmt(Infix(left.tokens, operator, Grouped(AssignTo(STR_g, Num(2)))))
           \o PrintStmt(Id(STR_g)),
         << {IF evaluated THEN NUMBER_VAL(2) ELSE left.value},
            {IF evaluated THEN NUMBER_VAL(2) ELSE NUMBER_VAL(0)} >>))

LogicalTexts ==
  [i \in 1..(2 * Len(Literals)) |->
     LogicalText(IF i % 2 = 0 THEN "TOKEN_AND" ELSE "TOKEN_OR", Literals[(i + 1) \div 2])]

Numbers(set) == {NUMBER_VAL(n) : n \in set}

Step(name) == AssignTo(name, Infix(Id(name), "TOKEN_PLUS", Num(1)))

Below(name, n) == Infix(Id(name), "TOKEN_LESS", Num(n))

LoopTexts ==
  << \* for (var i = 0; i < 2; i = i + 1) print i;
     Text("loop", ForStmt(VarStmt(STR_i, Num(0)), Below(STR_i, 2), Step(STR_i),
                          PrintStmt(Id(STR_i))),
          <<Numbers({0, 1})>>),
     \* var i = 0; for (; i < 2;) { print i; i = i + 1; }
     Text("loop", VarStmt(STR_i, Num(0))
                    \o ForStmt(<<Tok("TOKEN_SEMICOLON")>>, Below(STR_i, 2), <<>>,
                               BlockOf(PrintStmt(Id(STR_i)) \o ExprStmt(Step(STR_i)))),
          <<Numbers({0, 1})>>),
     \* for (var i = 0; ; i = 1) print i;
     Text("loop", ForStmt(VarStmt(STR_i, Num(0)), <<>>, AssignTo(STR_i, Num(1)),
                          PrintStmt(Id(STR_i))),
          <<Numbers({0, 1})>>),
     \* for (;;) print 1;
     Text("loop", ForStmt(<<Tok("TOKEN_SEMICOLON")>>, <<>>, <<>>, PrintStmt(Num(1))),
          <<Numbers({1})>>),
     \* for (var i = 0; i < 2; i = i + 1) for (var j = 0; j < 2; j = j + 1) print i + j;
     Text("loop", ForStmt(VarStmt(STR_i, Num(0)), Below(STR_i, 2), Step(STR_i),
                          ForStmt(VarStmt(STR_j, Num(0)), Below(STR_j, 2), Step(STR_j),
                                  PrintStmt(Infix(Id(STR_i), "TOKEN_PLUS", Id(STR_j))))),
          <<Numbers({0, 1, 2})>>),
     \* for (var i = 5; i < 2; i = i + 1) print i;  print 9;
     Text("loop", ForStmt(VarStmt(STR_i, Num(5)), Below(STR_i, 2), Step(STR_i),
                          PrintStmt(Id(STR_i)))
                    \o PrintStmt(Num(9)),
          <<{}, Numbers({9})>>),
     \* fun f() { for (var i = 3; ; i = i + 1) { return i; } }  print f();
     Text("loop", FunDecl(STR_f, <<>>,
                          ForStmt(VarStmt(STR_i, Num(3)), <<>>, Step(STR_i),
                                  BlockOf(ReturnStmt(Id(STR_i)))))
                    \o PrintStmt(CallOf(Id(STR_f), <<>>)),
          <<Numbers({3})>>),
     \* var i; for (i = 0; i < 1; i = i + 1) print i;
     Text("loop", VarStmt(STR_i, <<>>)
                    \o ForStmt(ExprStmt(AssignTo(STR_i, Num(0))), Below(STR_i, 1), Step(STR_i),
                               PrintStmt(Id(STR_i))),
          <<Numbers({0})>>) >>

LocalTexts ==
  << \* { var a = 1; var b = 2; { var c = 3; var a = 4; print a; print c; }
     \*   print a; print b; { var d = 5; print d; print b; } }
     Text("local",
          BlockOf(VarStmt(STR_a, Num(1)) \o VarStmt(STR_b, Num(2))
                    \o BlockOf(VarStmt(STR_c, Num(3)) \o VarStmt(STR_a, Num(4))
                                 \o PrintStmt(Id(STR_a)) \o PrintStmt(Id(STR_c)))
                    \o PrintStmt(Id(STR_a)) \o PrintStmt(Id(STR_b))
                    \o BlockOf(VarStmt(STR_d, Num(5)) \o PrintStmt(Id(STR_d))
                                 \o PrintStmt(Id(STR_b)))),
          <<Numbers({4}), Numbers({3}), Numbers({1}), Numbers({2}), Numbers({5}),
            Numbers({2})>>),
     \* fun f(p, q) { var r = 3; { var s = p + q; print s; } print r; print q; return p; }
     \* print f(1, 2);
     Text("local",
          FunDecl(STR_f, <<Identifier(STR_p), Tok("TOKEN_COMMA"), Identifier(STR_q)>>,
                  VarStmt(STR_r, Num(3))
                    \o BlockOf(VarStmt(STR_s, Infix(Id(STR_p), "TOKEN_PLUS", Id(STR_q)))
                                 \o PrintStmt(Id(STR_s)))
                    \o PrintStmt(Id(STR_r)) \o PrintStmt(Id(STR_q)) \o ReturnStmt(Id(STR_p)))
            \o PrintStmt(CallOf(Id(STR_f), Num(1) \o <<Tok("TOKEN_COMMA")>> \o Num(2))),
          <<Numbers({3}), Numbers({3}), Numbers({2}), Numbers({1})>>),
     \* { var a = 1; fun g() { return a; } var b = 2; print g(); print b; }
     Text("local",
          BlockOf(VarStmt(STR_a, Num(1)) \o FunDecl(STR_g, <<>>, ReturnStmt(Id(STR_a)))
                    \o VarStmt(STR_b, Num(2)) \o PrintStmt(CallOf(Id(STR_g), <<>>))
                    \o PrintStmt(Id(STR_b))),
          <<Numbers({1}), Numbers({2})>>),
     \* { var a = 1; var b = 2; a = b + 5; print a; print b; }
     Text("local",
          BlockOf(VarStmt(STR_a, Num(1)) \o VarStmt(STR_b, Num(2))
                    \o ExprStmt(AssignTo(STR_a, Infix(Id(STR_b), "TOKEN_PLUS", Num(5))))
                    \o PrintStmt(Id(STR_a)) \o PrintStmt(Id(STR_b))),
          <<Numbers({7}), Numbers({2})>>) >>

\*   var f; var g;
\*   for (var i = 0; i < 2; i = i + 1) {
\*     var x = i;
\*     fun h() { x = x + 10; return x; }
\*     f = g; g = h;
\*   }
\*   print f(); print g(); print f();
ClosureTexts ==
  << Text("closure",
          VarStmt(STR_f, <<>>) \o VarStmt(STR_g, <<>>)
            \o ForStmt(VarStmt(STR_i, Num(0)), Below(STR_i, 2), Step(STR_i),
                       BlockOf(VarStmt(STR_x, Id(STR_i))
                                 \o FunDecl(STR_h, <<>>,
                                            ExprStmt(AssignTo(STR_x, Infix(Id(STR_x), "TOKEN_PLUS",
                                                                           Num(10))))
                                              \o ReturnStmt(Id(STR_x)))
                                 \o ExprStmt(AssignTo(STR_f, Id(STR_g)))
                                 \o ExprStmt(AssignTo(STR_g, Id(STR_h)))))
            \o PrintStmt(CallOf(Id(STR_f), <<>>)) \o PrintStmt(CallOf(Id(STR_g), <<>>))
            \o PrintStmt(CallOf(Id(STR_f), <<>>)),
          <<Numbers({10}), Numbers({11}), Numbers({20})>>) >>

ClassDecl(name, superclass, methods) ==
  <<Tok("TOKEN_CLASS"), Identifier(name)>>
    \o (IF superclass = <<>> THEN <<>> ELSE <<Tok("TOKEN_LESS"), Identifier(superclass)>>)
    \o BlockOf(methods)

MethodDecl(name, body) ==
  <<Identifier(name), Tok("TOKEN_LEFT_PAREN"), Tok("TOKEN_RIGHT_PAREN")>> \o BlockOf(body)

ClassTexts ==
  << \* class A { m() { return 1; } init() { } }  print 3;
     Text("class", ClassDecl(STR_A, <<>>, MethodDecl(STR_m, ReturnStmt(Num(1)))
                                            \o MethodDecl(STR_init, <<>>))
                     \o PrintStmt(Num(3)),
          <<Numbers({3})>>),
     \* class A { m() { class B { f() { } } } }  { class C < A { g() { } } }  print 4;
     Text("class", ClassDecl(STR_A, <<>>,
                             MethodDecl(STR_m, ClassDecl(STR_B, <<>>, MethodDecl(STR_f, <<>>))))
                     \o BlockOf(ClassDecl(STR_C, STR_A, MethodDecl(STR_g, <<>>)))
                     \o PrintStmt(Num(4)),
          <<Numbers({4})>>) >>

\* Texts with errors: nothing is printed.
ErrorTexts ==
  << \* class A { m() { class B < B { f() { print ;
     Text("error", <<Tok("TOKEN_CLASS"), Identifier(STR_A), Tok("TOKEN_LEFT_BRACE"),
                     Identifier(STR_m), Tok("TOKEN_LEFT_PAREN"), Tok("TOKEN_RIGHT_PAREN"),
                     Tok("TOKEN_LEFT_BRACE"), Tok("TOKEN_CLASS"), Identifier(STR_B),
                     Tok("TOKEN_LESS"), Identifier(STR_B), Tok("TOKEN_LEFT_BRACE"),
                     Identifier(STR_f), Tok("TOKEN_LEFT_PAREN"), Tok("TOKEN_RIGHT_PAREN"),
                     Tok("TOKEN_LEFT_BRACE"), Tok("TOKEN_PRINT"), Tok("TOKEN_SEMICOLON")>>,
          <<{}>>),
     \* class { 1 }  print 2;
     Text("error", <<Tok("TOKEN_CLASS")>> \o BlockOf(Num(1)) \o PrintStmt(Num(2)), <<{}>>),
     \* fun f( { }
     Text("error", <<Tok("TOKEN_FUN"), Identifier(STR_f), Tok("TOKEN_LEFT_PAREN")>>
                     \o BlockOf(<<>>), <<>>),
     \* fun f() { fun g() { print 1;
     Text("error", <<Tok("TOKEN_FUN"), Identifier(STR_f), Tok("TOKEN_LEFT_PAREN"),
                     Tok("TOKEN_RIGHT_PAREN"), Tok("TOKEN_LEFT_BRACE"),
                     Tok("TOKEN_FUN"), Identifier(STR_g), Tok("TOKEN_LEFT_PAREN"),
                     Tok("TOKEN_RIGHT_PAREN"), Tok("TOKEN_LEFT_BRACE")>>
                     \o PrintStmt(Num(1)), <<{}>>),
     \* { for (;;) { var a = 1
     Text("error", <<Tok("TOKEN_LEFT_BRACE")>>
                     \o ForStmt(<<Tok("TOKEN_SEMICOLON")>>, <<>>, <<>>,
                                <<Tok("TOKEN_LEFT_BRACE"), Tok("TOKEN_VAR"), Identifier(STR_a),
                                  Tok("TOKEN_EQUAL")>> \o Num(1)), <<>>),
     \* return 1;  print 2;
     Text("error", ReturnStmt(Num(1)) \o PrintStmt(Num(2)), <<{}>>),
     \* fun f() { return; print ; } var a = f;
     Text("error", FunDecl(STR_f, <<>>, ReturnStmt(<<>>) \o PrintStmt(<<>>))
                     \o VarStmt(STR_a, Id(STR_f)), <<>>) >>

ControlTexts ==
  LogicalTexts \o LoopTexts \o LocalTexts \o ClosureTexts \o ClassTexts \o ErrorTexts

\* The operand-stack slots the texts use.
ControlStack == 12

ControlInit ==
  /\ Holds([initVM EXCEPT !.stack = [i \in 1..ControlStack |-> NIL_VAL]])
  /\ Idle /\ NoTable /\ NoCounts /\ stress = FALSE
  /\ \E i \in DOMAIN ControlTexts : source = ControlTexts[i]
  /\ current = <<>> /\ outcome = NoOutcome

ControlNext ==
  \/ ControlInterpret
  \/ VarDeclaration \/ FunDeclaration \/ FunctionEnd \/ BlockStatement \/ BlockEnd
  \/ ClassDeclaration \/ Method \/ ClassEnd
  \/ ForStatement \/ ForEnd \/ SimpleStatement \/ CompileEnd
  \/ OpConstant \/ OpNil \/ OpTrue \/ OpFalse \/ OpPop \/ OpGetLocal \/ OpSetLocal
  \/ OpGetGlobal \/ OpDefineGlobal \/ OpSetGlobal \/ OpGetUpvalue \/ OpSetUpvalue
  \/ OpLess \/ OpAdd \/ OpPrint \/ OpJump \/ OpJumpIfFalse \/ OpLoop
  \/ OpCall \/ OpClosure \/ OpCloseUpvalue \/ OpReturn
  \/ OpClass \/ OpInherit \/ OpMethod

SpecControl == ControlInit /\ [][ControlNext]_vars

\* ------------------------------------------- claims on the texts' runs
IsText(kind) == source # <<>> /\ "kind" \in DOMAIN source /\ source.kind = kind

\* The function the i-th frame runs.
FrameFunction(i) == heap[frames[i].closure].function

\* The print statement whose OP_PRINT has just run, by its place in the text.
PrintSite ==
  CHOOSE k \in DOMAIN outcome.sites :
    outcome.sites[k] = [function |-> FrameFunction(Len(frames)),
                        ip |-> frames[Len(frames)].ip - 1]

\* What a print statement prints is what Lox has it print.
PrintsAsExpected ==
  last.op = "OP_PRINT" =>
    /\ \E k \in DOMAIN outcome.sites :
         outcome.sites[k] = [function |-> FrameFunction(Len(frames)),
                             ip |-> frames[Len(frames)].ip - 1]
    /\ PrintSite \in DOMAIN source.expect
    /\ last.value \in source.expect[PrintSite]

\* C32: `a and b` is a when a is nil or false and b otherwise, `a or b` is a
\* when a is neither nil nor false and b otherwise; the code of b (here an
\* assignment to a global) does not run when the result is a, and the
\* expression leaves one value on the stack, above the script's slot 0.
C32_ShortCircuit ==
  IsText("logical") =>
    /\ PrintsAsExpected
    /\ last.op = "OP_PRINT" => last.height = 2
    /\ last.op = "OP_SET_GLOBAL" => source.expect[2] = {NUMBER_VAL(2)}

\* `var g = 0; print nil and (g = 2); print g;` has printed nil, and now 0: the
\* assignment did not run.
C32_Witness ==
  /\ IsText("logical") /\ source.expect[1] = {NIL_VAL}
  /\ source.tokens[7].type = "TOKEN_NIL" /\ source.tokens[8].type = "TOKEN_AND"
  /\ last.op = "OP_PRINT" /\ PrintSite = 2 /\ last.value = NUMBER_VAL(0)

\* ---- the for statements
\* The frame that runs the function, innermost first; 0 if none does.
FrameOf(function, fs, hp) ==
  With({i \in DOMAIN fs : hp[fs[i].closure].function = function}, LAMBDA running :
    IF running = {} THEN 0 ELSE CHOOSE i \in running : \A j \in running : j <= i)

\* The clause of the for statement the instruction at ip belongs to.  The
\* OP_JUMP_IF_FALSE and OP_POP after the condition, and the OP_JUMP over the
\* increment, go with the condition; the OP_LOOPs with the increment and the
\* body they end; the OP_POPs after the loop are its exit.
ClauseAt(loop, ip) ==
  CASE ip <= loop.start -> "before"
    [] ip > loop.start /\ ip <= loop.condition -> "initializer"
    [] ip > loop.condition /\ ip <= loop.increment -> "condition"
    [] ip > loop.increment /\ ip <= loop.body ->
         IF ip = loop.increment + 1 THEN "condition" ELSE "increment"
    [] ip > loop.body /\ ip <= loop.loop -> "body"
    [] ip > loop.loop /\ ip <= loop.end -> "exit"
    [] OTHER -> "after"

\* Where the for statement is, in the frames fs over the heap hp: in one of its
\* clauses, or not begun ("before": also when no frame runs its function) or
\* left ("after").
Clause(loop, fs, hp) ==
  With(FrameOf(loop.function, fs, hp), LAMBDA i :
    IF i = 0 THEN "before" ELSE ClauseAt(loop, fs[i].ip))

HasIncrement(loop) == loop.body > loop.increment

\* The clauses a step may go to from a clause: the initializer runs when the
\* statement begins, the condition after the initializer and after the
\* increment (after the body if there is no increment), the body after the
\* condition, the increment after the body only, and the loop is left from the
\* condition only, or by a return.  An enclosing loop that is left goes past
\* the statement without beginning it.
NextClauses(loop, clause) ==
  CASE clause = "before" -> {"initializer", "condition", "body", "after"}
    [] clause = "initializer" -> {"condition", "body"}
    [] clause = "condition" -> {"body", "exit"}
    [] clause = "body" -> IF HasIncrement(loop) THEN {"increment"} ELSE {"condition"}
    [] clause = "increment" -> {"condition", "body"} \ (IF loop.exitJump = -1 THEN {} ELSE {"body"})
    [] clause = "exit" -> {"after"}
    [] clause = "after" -> {"before"}

\* The step runs the OP_JUMP_IF_FALSE of the loop's condition.
AtExitJump(loop) ==
  /\ phase = "run" /\ frames # <<>> /\ FrameFunction(Len(frames)) = loop.function
  /\ frames[Len(frames)].ip = loop.exitJump

ClauseOrder ==
  IsText("loop") =>
    \A n \in DOMAIN outcome.loops :
      \E loop \in {outcome.loops[n]} :
        \E clause \in {Clause(loop, frames, heap)} :
          \E next \in {Clause(loop, frames', heap')} :
            /\ next # clause =>
                 \/ next \in NextClauses(loop, clause)
                 \/ next = "before" /\ FrameOf(loop.function, frames', heap') = 0
            /\ AtExitJump(loop) =>
                 next = IF isFalsey(peek(VM, 0)) THEN "exit" ELSE "condition"
            /\ loop.exitJump = -1 => next \notin {"exit", "after"}

\* Before the for statement and after it the frame holds the locals that were
\* in scope before it, and nothing else.
LoopHeights ==
  IsText("loop") /\ phase = "run" /\ frames # <<>> =>
    \A n \in DOMAIN outcome.loops :
      \E loop \in {outcome.loops[n]} : \E frame \in {frames[Len(frames)]} :
        (FrameFunction(Len(frames)) = loop.function
           /\ frame.ip \in {loop.start + 1, loop.end + 1}) =>
          stackTop - frame.slots = loop.locals

\* C31: a for statement runs its initializer once, then condition, body and
\* increment in that order, the increment never before a body; it is left
\* when the condition is falsey for the first time, never if there is no
\* condition; and when it is left the stack is as high as before it.
C31_ForStatement == []LoopHeights /\ [][ClauseOrder]_vars

\* for (var i = 0; i < 2; i = i + 1) for (var j = 0; j < 2; j = j + 1) print i + j;
\* prints 2: the inner statement has been left once and begun again.
C31_Witness ==
  /\ IsText("loop") /\ Len(outcome.loops) = 2
  /\ last.op = "OP_PRINT" /\ last.value = NUMBER_VAL(2)
  /\ Clause(outcome.loops[1], frames, heap) = "body"
  /\ Clause(outcome.loops[2], frames, heap) = "body"

\* ---- the Compiler records
\* The functions initCompiler has made: newFunction is called nowhere else.
FunctionsMade == {p \in DOMAIN heap : heap[p].type = "function"}

\* In a text's compile and after it: the Compilers from `current` are those
\* whose initCompiler has run and whose endCompiler has not, none of them has
\* a function that has finished compiling, so markCompilerRoots marks none,
\* and when compile has returned there is none, and no ClassCompiler.
CompilerRecords ==
  (source # <<>> /\ "kind" \in DOMAIN source /\ runs = 1) =>
    /\ Len(current) = Len(compilers)
    /\ Cardinality(FunctionsMade) = Len(compilers) + Cardinality(outcome.finished)
    /\ \A i \in DOMAIN compilers : compilers[i].function \notin outcome.finished
    /\ \A function \in outcome.finished : ~markCompilerRoots(VM).heap[function].isMarked
    /\ phase # "compile" =>
         /\ current = <<>> /\ compilers = <<>> /\ outcome.currentClass = <<>>
         /\ FunctionsMade = outcome.finished

\* The endCompiler of a nested function leaves `current` at the Compiler that
\* was current at its initCompiler: the chain below it is as it was, and so are
\* its own locals, upvalues and scope; its chunk has grown.
NestedFunctionEnds ==
  (phase = "compile" /\ Len(compilers) > 1 /\ Len(compilers') < Len(compilers)) =>
    /\ compilers' = Tail(compilers)
    /\ Len(current') = Len(current) - 1
    /\ \A i \in 1..(Len(current) - 2) : current'[i] = current[i]
    /\ \E before \in {current[Len(current) - 1]} : \E after \in {current'[Len(current')]} :
         /\ after.type = before.type /\ after.locals = before.locals
         /\ after.upvalues = before.upvalues /\ after.scopeDepth = before.scopeDepth
         /\ SubSeq(after.code, 1, Len(before.code)) = before.code
         /\ Len(after.code) > Len(before.code)

\* C35: the Compiler records form a stack: each initCompiler has its
\* endCompiler, after a nested function `current` is the compiler that was
\* current before it, and when compile returns, with errors or without,
\* current and currentClass are NULL; markCompilerRoots never follows a
\* Compiler whose function has finished compiling.
C35_CompilerStack == []CompilerRecords /\ [][NestedFunctionEnds]_vars

\* class A { m() { class B < B { f() { print ;   has been compiled: three
\* functions, two classes, and errors.
C35_Witness ==
  /\ IsText("error") /\ source.tokens[1].type = "TOKEN_CLASS"
  /\ source.tokens[2].type = "TOKEN_IDENTIFIER"
  /\ phase = "idle" /\ result = "compile_error" /\ parser.hadError
  /\ Cardinality(outcome.finished) = 3
  /\ current = <<>> /\ outcome.currentClass = <<>>

\* ---- the locals' slots
\* The values of the locals of the first of LocalTexts, by name and depth.
LocalValues ==
  (<<STR_a, 1>> :> NUMBER_VAL(1)) @@ (<<STR_b, 1>> :> NUMBER_VAL(2))
    @@ (<<STR_c, 2>> :> NUMBER_VAL(3)) @@ (<<STR_a, 2>> :> NUMBER_VAL(4))
    @@ (<<STR_d, 2>> :> NUMBER_VAL(5))

\* A text without errors runs.
TextRuns ==
  /\ source # <<>> /\ "kind" \in DOMAIN source /\ source.kind # "error"
  /\ phase = "run" /\ frames # <<>>

\* Where a statement's code begins the frame is as high as the locals the
\* compiler had in scope there are many; OP_GET_LOCAL and OP_SET_LOCAL name a
\* slot of the frame; in the text whose locals never change, each slot holds
\* the value of the local the compiler gave that index; and what the texts
\* print of their locals and parameters is what Lox has them print.
LocalSlots ==
  TextRuns =>
    \E frame \in {frames[Len(frames)]} : \E height \in {stackTop - frames[Len(frames)].slots} :
      /\ \A mark \in outcome.marks :
           (mark.function = FrameFunction(Len(frames)) /\ mark.ip = frame.ip) =>
             /\ height = mark.locals
             /\ source.tokens = LocalTexts[1].tokens =>
                  \A i \in 2..mark.locals : stack[frame.slots + i] = LocalValues[mark.scope[i]]
      /\ Fetch(VM).op \in {"OP_GET_LOCAL", "OP_SET_LOCAL"} => Fetch(VM).a < height
      /\ IsText("local") => PrintsAsExpected

\* A block statement's '}' has been compiled without error: the block's
\* locals were the last of the Compiler's, they are gone, and the chunk has got
\* one instruction for each, for the last declared first, OP_CLOSE_UPVALUE for
\* the captured and OP_POP for the others.
BlockLeaves ==
  (last'.op = "endScope" /\ ~parser'.hadError) =>
    \E c \in {current[Len(current)]} : \E c1 \in {current'[Len(current')]} :
      \E n \in {Cardinality({i \in DOMAIN c.locals : c.locals[i].depth >= c.scopeDepth})} :
        /\ \A i \in DOMAIN c.locals : c.locals[i].depth >= c.scopeDepth <=> i > Len(c.locals) - n
        /\ c1.scopeDepth = c.scopeDepth - 1
        /\ c1.locals = SubSeq(c.locals, 1, Len(c.locals) - n)
        /\ Len(c1.code) = Len(c.code) + n
        /\ SubSeq(c1.code, 1, Len(c.code)) = c.code
        /\ \A k \in 1..n :
             c1.code[Len(c.code) + k].op =
               IF c.locals[Len(c.locals) + 1 - k].isCaptured THEN "OP_CLOSE_UPVALUE"
               ELSE "OP_POP"

\* C38: in functions compiled without error a local's index is its slot: a
\* statement leaves the stack as high as it was, a local's declaration adds one
\* slot, and leaving a block emits one OP_POP or OP_CLOSE_UPVALUE for each of
\* its locals, the last declared first, OP_CLOSE_UPVALUE for the captured ones.
C38_LocalSlots == []LocalSlots /\ [][BlockLeaves]_vars

\* { var a = 1; var b = 2; { var c = 3; var a = 4; ... } ... { var d = 5; print d;
\* d has the slot that c had, and is printed.
C38_Witness ==
  /\ IsText("local") /\ source.tokens = LocalTexts[1].tokens
  /\ last.op = "OP_PRINT" /\ last.value = NUMBER_VAL(5) /\ PrintSite = 5
  /\ stackTop - frames[Len(frames)].slots = 4

\* ---- the closures of a loop body
\* The closures that have captured a variable.
Capturing == {p \in DOMAIN heap : heap[p].type = "closure" /\ Len(heap[p].upvalues) = 1}

\* The upvalue of a capturing closure.
CellOf(closure) == heap[closure].upvalues[1]

\* The text whose loop body declares x and a function that adds 10 to x runs:
\* the closures of the two iterations have upvalues of their own; an upvalue
\* is open while its local is on the stack and closed from then on; and the
\* calls print what Lox has them print: 10 and 20 from x = 0 through the first
\* closure, 11 from x = 1 through the second.
ClosureCells ==
  (IsText("closure") /\ runs = 1) =>
    /\ PrintsAsExpected
    /\ \A p \in Capturing : \A q \in Capturing : p # q => CellOf(p) # CellOf(q)
    /\ \A u \in DOMAIN heap :
         heap[u].type = "upvalue" =>
           IF \E k \in DOMAIN UpvalueList(heap, openUpvalues) :
                UpvalueList(heap, openUpvalues)[k] = u
           THEN heap[u].location # CLOSED /\ heap[u].location < stackTop
           ELSE heap[u].location = CLOSED
    /\ last.op = "OP_CLOSE_UPVALUE" =>
         \E p \in Capturing : /\ heap[CellOf(p)].location = CLOSED
                              /\ heap[CellOf(p)].closed = stack[stackTop + 1]
    /\ (last.op = "OP_PRINT" /\ PrintSite = 3) =>
         {heap[CellOf(p)].closed : p \in Capturing} = {NUMBER_VAL(20), NUMBER_VAL(11)}

\* C39: closures made in different executions of a block that capture a local
\* of the block have distinct upvalues: OP_CLOSE_UPVALUE closes the upvalue
\* when the block is left, and a write through one closure is not seen
\* through the closure of another execution.
C39_ClosurePerIteration == ClosureCells

\* Both closures have been called, the first one twice.
C39_Witness ==
  /\ IsText("closure") /\ last.op = "OP_PRINT" /\ PrintSite = 3
  /\ last.value = NUMBER_VAL(20) /\ Cardinality(Capturing) = 2
  /\ openUpvalues = NULL
====
